---- MODULE Spec2Model ----
(***************************************************************************)
(* Image Gallery: the path tree builder (buildTree), the on-demand folder  *)
(* cache of AppContent (imagesByFolder, loadImagesForFolder,               *)
(* handleRefreshFolders, handleUpdateImageDetails) with its callers in     *)
(* LeftPanel and MainPanel, and the EXIF decoder (getExifData, readTags).  *)
(*                                                                         *)
(* Strings are sequences of one-character strings, so that split, join,   *)
(* substring and lastIndexOf are computed as the code computes them.       *)
(***************************************************************************)
EXTENDS Integers, Sequences, FiniteSets, TLC

VARIABLES
    \* ---- buildTree (SpecTree)
    paths,      \* the path list handed to buildTree
    tree,       \* the tree it returned, or NotBuilt
    treeOp,     \* the last step taken: "init", "build", "reorder", "duplicate"
    \* ---- getExifData (SpecExif)
    buffer,     \* the bytes of the ArrayBuffer handed to getExifData
    exifOut,    \* what the call did: NotCalled, or [kind, tags]
    scanOffset, \* getExifData run step by step: `offset` of its segment scan
    \* ---- readTags (SpecTags)
    readArgs,   \* the arguments of the call: [tiffStart, dirStart, table, bigEnd]
    readOut,    \* what the call did: NotRead, or [thrown, tags]
    \* ---- AppContent, LeftPanel, MainPanel (Spec)
    folderTree,         \* AppContent folderTree: NotBuilt (null) or a tree
    loadingFolders,     \* AppContent loading.folders: a getFolders call is in flight
    selectedItem,       \* AppContent selectedItem
    saved,              \* localStorage holds 'imageGallerySelection'
    imagesByFolder,     \* AppContent imagesByFolder: folder path -> image records
    isAppBusy,          \* AppContent isAppBusy
    expandedFolders,    \* LeftPanel expandedFolders
    expandedImageLists, \* LeftPanel expandedImageLists
    inFlight,           \* per folder: getImages calls of loadImagesForFolder not yet settled
    tracked,            \* history: the folder of one in-flight getImages call, or NoLoad
    fetches,            \* MainPanel fetchImage calls that can still act
    failed,             \* history: folders whose load failed since the last refresh
    refetchDue,         \* history: folders cached at the last refresh, not asked for since
    cacheHits,          \* history: folders for which loadImagesForFolder returned
                        \* early in the last step
    stale,              \* history: per folder the in-flight getImages calls issued
                        \* before the last refresh, and the folders whose entry
                        \* such a call wrote
    concurrent,         \* history: folders whose load has been in flight together
                        \* with the load of another folder since the last refresh
    viewer,             \* MainPanel imageUrl, loading and error, in the runs that
                        \* keep them: nothing else reads them
    history,            \* which of the history variables this run keeps
    gallery             \* what the server holds in this run: the folder lists
                        \* getFolders can answer and the images of a folder

treeVars == <<paths, tree, treeOp>>

exifVars == <<buffer, exifOut, scanOffset, readArgs, readOut>>

appVars == <<folderTree, loadingFolders, selectedItem, saved, imagesByFolder,
             isAppBusy, expandedFolders, expandedImageLists, inFlight, tracked,
             fetches, failed, refetchDue, cacheHits, stale, concurrent, viewer,
             history, gallery>>

vars == <<paths, tree, treeOp, buffer, exifOut, scanOffset, readArgs, readOut,
          folderTree, loadingFolders, selectedItem, saved, imagesByFolder,
          isAppBusy, expandedFolders, expandedImageLists, inFlight, tracked,
          fetches, failed, refetchDue, cacheHits, stale, concurrent, viewer,
          history, gallery>>

----------------------------------------------------------------------------
(* Strings *)

Range(s) == {s[i] : i \in 1..Len(s)}

\* The characters path strings are drawn from.
PathChars == {"a", "/"}

\* Bounds of the tree specification.
MaxPathLen == 3
MaxPaths == 2

StringsUpTo(chars, n) == UNION {[1..k -> chars] : k \in 0..n}

\* s.indexOf('/') from position 1, 0 when there is none.
RECURSIVE IndexOfSlash(_, _)
IndexOfSlash(s, i) ==
    IF i > Len(s) THEN 0
    ELSE IF s[i] = "/" THEN i
    ELSE IndexOfSlash(s, i + 1)

\* s.split('/'): the segments between the slashes; "".split('/') is [""].
RECURSIVE Split(_)
Split(s) ==
    LET k == IndexOfSlash(s, 1)
    IN IF k = 0 THEN <<s>>
       ELSE <<SubSeq(s, 1, k - 1)>> \o Split(SubSeq(s, k + 1, Len(s)))

\* currentPath ? `${currentPath}/${part}` : part  -- the empty string is falsy.
JoinPath(currentPath, part) ==
    IF currentPath # <<>> THEN currentPath \o <<"/">> \o part ELSE part

----------------------------------------------------------------------------
(* buildTree.  A tree is a function from routes to nodes: the route of a    *)
(* node is the sequence of children keys from the root, so the children of *)
(* the node at route r are the nodes at the routes Append(r, key).         *)

\* No tree yet: the empty function (every built tree has its root).
NotBuilt == <<>>

RootNode == [name |-> <<"r", "o", "o", "t">>, path |-> <<>>, isSelectable |-> FALSE]

EmptyTree == (<<>> :> RootNode)

\* A plausible slip: the membership set grows with the paths handled so far.
PathSetSoFar(ps, i) == {ps[j] : j \in 1..i}

\* const pathSet = new Set(paths): the set consulted while the i-th path is handled.
PathSet(ps, i) == Range(ps)

\* parts.forEach(part => ...) from the node at `route`, currentPath so far.
RECURSIVE AddParts(_, _, _, _, _)
AddParts(t, parts, route, currentPath, pathSet) ==
    IF parts = <<>> THEN t
    ELSE LET part == Head(parts)
             cp == JoinPath(currentPath, part)
             r == Append(route, part)
             t1 == IF r \in DOMAIN t
                   THEN t
                   ELSE t @@ (r :> [name |-> part, path |-> cp, isSelectable |-> FALSE])
             t2 == IF cp \in pathSet
                   THEN [t1 EXCEPT ![r].isSelectable = TRUE]
                   ELSE t1
         IN AddParts(t2, Tail(parts), r, cp, pathSet)

\* paths.forEach(path => ...) from the i-th path on.
RECURSIVE AddPaths(_, _, _)
AddPaths(t, ps, i) ==
    IF i > Len(ps) THEN t
    ELSE IF ps[i] = <<>> THEN AddPaths(t, ps, i + 1)
    ELSE AddPaths(AddParts(t, Split(ps[i]), <<>>, <<>>, PathSet(ps, i)), ps, i + 1)

buildTree(ps) == AddPaths(EmptyTree, ps, 1)


----------------------------------------------------------------------------
(* DataView reads.  A read outside the buffer raises RangeError in the     *)
(* code; here it yields OutOfRange, which every caller passes on.          *)

OutOfRange == -1

\* ToIndex of a non-negative number: the fraction is dropped.
ByteLength(buf) == Len(buf)

getUint8(buf, o) ==
    IF o + 1 > ByteLength(buf) THEN OutOfRange ELSE buf[o + 1]

getUint16(buf, o, littleEndian) ==
    IF o + 2 > ByteLength(buf) THEN OutOfRange
    ELSE IF littleEndian THEN buf[o + 1] + 256 * buf[o + 2]
    ELSE 256 * buf[o + 1] + buf[o + 2]

getUint32(buf, o, littleEndian) ==
    IF o + 4 > ByteLength(buf) THEN OutOfRange
    ELSE IF littleEndian
         THEN buf[o + 1] + 256 * buf[o + 2] + 65536 * buf[o + 3] + 16777216 * buf[o + 4]
         ELSE 16777216 * buf[o + 1] + 65536 * buf[o + 2] + 256 * buf[o + 3] + buf[o + 4]

----------------------------------------------------------------------------
(* Decoded values: a number (the fraction n/d, d > 0), a string (its       *)
(* character codes) or an array of numbers (each <<n, d>>).                *)

RECURSIVE Gcd(_, _)
Gcd(a, b) == IF b = 0 THEN a ELSE Gcd(b, a % b)

Abs(x) == IF x < 0 THEN -x ELSE x

\* The fraction n/d in lowest terms, d > 0.
Frac(n, d) ==
    LET g == Gcd(Abs(n), Abs(d))
        sg == IF d < 0 THEN -1 ELSE 1
    IN IF n = 0 THEN <<0, 1>> ELSE <<sg * (n \div g), sg * (d \div g)>>

NumVal(q) == [t |-> "num", q |-> q, s |-> <<>>]
StrVal(codes) == [t |-> "str", q |-> <<0, 1>>, s |-> codes]
ArrVal(qs) == [t |-> "arr", q |-> <<0, 1>>, s |-> qs]

\* JavaScript truthiness of a decoded value: 0 and "" are falsy, arrays truthy.
Truthy(v) ==
    CASE v.t = "num" -> v.q[1] # 0
      [] v.t = "str" -> v.s # <<>>
      [] OTHER -> TRUE

\* The white space String.prototype.trim removes, among the codes 0..255.
IsWhiteSpace(c) == c \in {9, 10, 11, 12, 13, 32, 160}

RECURSIVE TrimStart(_)
TrimStart(s) ==
    IF s # <<>> /\ IsWhiteSpace(Head(s)) THEN TrimStart(Tail(s)) ELSE s

RECURSIVE TrimEnd(_)
TrimEnd(s) ==
    IF s # <<>> /\ IsWhiteSpace(s[Len(s)]) THEN TrimEnd(SubSeq(s, 1, Len(s) - 1)) ELSE s

Trim(s) == TrimEnd(TrimStart(s))

----------------------------------------------------------------------------
(* The tag tables *)

EXIF_TAGS ==
    (256 :> "ImageWidth") @@ (257 :> "ImageHeight") @@ (258 :> "BitsPerSample") @@
    (259 :> "Compression") @@ (262 :> "PhotometricInterpretation") @@
    (270 :> "ImageDescription") @@ (271 :> "Make") @@ (272 :> "Model") @@
    (274 :> "Orientation") @@ (277 :> "SamplesPerPixel") @@ (282 :> "XResolution") @@
    (283 :> "YResolution") @@ (284 :> "PlanarConfiguration") @@
    (296 :> "ResolutionUnit") @@ (306 :> "DateTime") @@ (315 :> "Artist") @@
    (33432 :> "Copyright") @@ (34665 :> "ExifIFDPointer") @@
    (34853 :> "GPSInfoIFDPointer") @@ (36864 :> "ExifVersion") @@
    (36867 :> "DateTimeOriginal") @@ (36868 :> "DateTimeDigitized") @@
    (37377 :> "ShutterSpeedValue") @@ (37378 :> "ApertureValue") @@
    (37380 :> "ExposureTime") @@ (37381 :> "FNumber") @@ (37385 :> "Flash") @@
    (37386 :> "FocalLength") @@ (37500 :> "MakerNote") @@ (37510 :> "UserComment") @@
    (34855 :> "ISOSpeedRatings") @@ (40961 :> "ColorSpace") @@
    (40962 :> "PixelXDimension") @@ (40963 :> "PixelYDimension") @@
    (41986 :> "ExposureMode") @@ (41987 :> "WhiteBalance") @@
    (41990 :> "SceneCaptureType")

GPS_TAGS ==
    (1 :> "GPSLatitudeRef") @@ (2 :> "GPSLatitude") @@
    (3 :> "GPSLongitudeRef") @@ (4 :> "GPSLongitude")

\* [0, 1, 1, 2, 4, 8, 1, 1, 2, 4, 8, 4, 8][format]; 0 where the code gets
\* 0 or undefined (both falsy).
TypeSize(format) ==
    IF format \in 1..12 THEN <<1, 1, 2, 4, 8, 1, 1, 2, 4, 8, 4, 8>>[format] ELSE 0

----------------------------------------------------------------------------
(* readRational, readTags.  Every result is [thrown, ...]: thrown is TRUE  *)
(* when a DataView read raised RangeError.                                 *)

\* [thrown, q]: numerator / denominator, 0 when the denominator is 0.
readRational(buf, o, bigEnd) ==
    LET numerator == getUint32(buf, o, ~bigEnd)
        denominator == getUint32(buf, o + 4, ~bigEnd)
    IN IF numerator = OutOfRange \/ denominator = OutOfRange
       THEN [thrown |-> TRUE, q |-> <<0, 1>>]
       ELSE IF denominator = 0 THEN [thrown |-> FALSE, q |-> <<0, 1>>]
       ELSE [thrown |-> FALSE, q |-> Frac(numerator, denominator)]

Min(a, b) == IF a < b THEN a ELSE b

\* for (n = 0; n < limit; n++) str += String.fromCharCode(getUint8(valueAddress + n))
RECURSIVE ReadChars(_, _, _, _, _)
ReadChars(buf, valueAddress, n, limit, str) ==
    IF n >= limit THEN [thrown |-> FALSE, s |-> str]
    ELSE LET c == getUint8(buf, valueAddress + n)
         IN IF c = OutOfRange THEN [thrown |-> TRUE, s |-> str]
            ELSE ReadChars(buf, valueAddress, n + 1, limit, Append(str, c))

\* for (j = 0; j < components; j++) value.push(readRational(valueAddress + j * 8))
RECURSIVE ReadRationals(_, _, _, _, _, _)
ReadRationals(buf, valueAddress, j, components, bigEnd, acc) ==
    IF j >= components THEN [thrown |-> FALSE, s |-> acc]
    ELSE LET r == readRational(buf, valueAddress + j * 8, bigEnd)
         IN IF r.thrown THEN [thrown |-> TRUE, s |-> acc]
            ELSE ReadRationals(buf, valueAddress, j + 1, components, bigEnd, Append(acc, r.q))

NoValue == [thrown |-> FALSE, defined |-> FALSE, v |-> NumVal(<<0, 1>>)]
Thrown == [thrown |-> TRUE, defined |-> FALSE, v |-> NumVal(<<0, 1>>)]
Value(v) == [thrown |-> FALSE, defined |-> TRUE, v |-> v]

\* The value of one entry whose tag is known and whose type size is not 0:
\* [thrown, defined, v]; defined is FALSE where the code leaves value undefined.
EntryValue(buf, tiffStart, dataOffset, format, components, typeSize, bigEnd) ==
    LET totalSize == components * typeSize
        valuePointer == getUint32(buf, dataOffset, ~bigEnd)
        valueAddress == IF totalSize > 4 THEN tiffStart + valuePointer ELSE dataOffset
    IN IF valuePointer = OutOfRange THEN Thrown
       ELSE IF format = 2
       THEN LET r == ReadChars(buf, valueAddress, 0, Min(components - 1, 100), <<>>)
            IN IF r.thrown THEN Thrown ELSE Value(StrVal(Trim(r.s)))
       ELSE IF format = 5
       THEN IF components > 1
            THEN LET r == ReadRationals(buf, valueAddress, 0, components, bigEnd, <<>>)
                 IN IF r.thrown THEN Thrown ELSE Value(ArrVal(r.s))
            ELSE LET r == readRational(buf, valueAddress, bigEnd)
                 IN IF r.thrown THEN Thrown ELSE Value(NumVal(r.q))
       ELSE IF components = 1 /\ totalSize <= 4
       THEN IF format = 3
            THEN Value(NumVal(<<getUint16(buf, dataOffset, ~bigEnd), 1>>))
            ELSE IF format = 4
            THEN Value(NumVal(<<getUint32(buf, dataOffset, ~bigEnd), 1>>))
            ELSE NoValue
       ELSE Value(NumVal(<<valuePointer, 1>>))

\* What one pass of the for loop of readTags comes to: [thrown, skip, name, v].
EntrySkipped == [thrown |-> FALSE, skip |-> TRUE, name |-> "", v |-> NumVal(<<0, 1>>)]
EntryRaised == [thrown |-> TRUE, skip |-> TRUE, name |-> "", v |-> NumVal(<<0, 1>>)]

\* if (value !== undefined) result[tagName] = value, for the value e as read.
KeepEntry(tagName, e) ==
    IF e.thrown THEN EntryRaised
    ELSE IF ~e.defined THEN EntrySkipped
    ELSE [thrown |-> FALSE, skip |-> FALSE, name |-> tagName, v |-> e.v]

\* One pass of the for loop of readTags, for entry i.
ReadEntry(buf, tiffStart, dirStart, i, tags, bigEnd) ==
    LET entryOffset == dirStart + i * 12 + 2
        tagId == getUint16(buf, entryOffset, ~bigEnd)
        format == getUint16(buf, entryOffset + 2, ~bigEnd)
        components == getUint32(buf, entryOffset + 4, ~bigEnd)
        dataOffset == entryOffset + 8
    IN IF tagId = OutOfRange THEN EntryRaised
       ELSE IF tagId \notin DOMAIN tags THEN EntrySkipped
       ELSE IF format = OutOfRange \/ components = OutOfRange THEN EntryRaised
       ELSE IF TypeSize(format) = 0 THEN EntrySkipped
       ELSE KeepEntry(tags[tagId],
                      EntryValue(buf, tiffStart, dataOffset, format, components,
                                 TypeSize(format), bigEnd))

\* result[tagName] = value: the key is added or overwritten.
SetKey(map, k, v) == [x \in DOMAIN map \cup {k} |-> IF x = k THEN v ELSE map[x]]

\* delete map[k] left out.
KeepKey(map, k) == map

\* delete map[k]
DeleteKey(map, k) == [x \in DOMAIN map \ {k} |-> map[x]]

\* for (const tag in from) into[tag] = from[tag]
MergeTags(into, from) ==
    [x \in DOMAIN into \cup DOMAIN from |-> IF x \in DOMAIN from THEN from[x] ELSE into[x]]

EmptyTags == [x \in {} |-> NumVal(<<0, 1>>)]

RECURSIVE ReadEntries(_, _, _, _, _, _, _, _)
\* The rest of the for loop of readTags after entry i came to e.
AfterEntry(buf, tiffStart, dirStart, i, entries, tags, bigEnd, result, e) ==
    IF e.thrown THEN [thrown |-> TRUE, tags |-> result]
    ELSE ReadEntries(buf, tiffStart, dirStart, i + 1, entries, tags, bigEnd,
                     IF e.skip THEN result ELSE SetKey(result, e.name, e.v))

\* for (let i = 0; i < entries; i++) { ... } from entry i on.
ReadEntries(buf, tiffStart, dirStart, i, entries, tags, bigEnd, result) ==
    IF i >= entries THEN [thrown |-> FALSE, tags |-> result]
    ELSE AfterEntry(buf, tiffStart, dirStart, i, entries, tags, bigEnd, result,
                    ReadEntry(buf, tiffStart, dirStart, i, tags, bigEnd))

\* readTags(file, tiffStart, dirStart, tags, bigEnd): [thrown, tags]
readTags(buf, tiffStart, dirStart, tags, bigEnd) ==
    LET entries == getUint16(buf, dirStart, ~bigEnd)
    IN IF entries = OutOfRange THEN [thrown |-> TRUE, tags |-> EmptyTags]
       ELSE ReadEntries(buf, tiffStart, dirStart, 0, entries, tags, bigEnd, EmptyTags)

----------------------------------------------------------------------------
(* getExifData *)

\* Where a directory pointer leads.  A number n gives tiffHeaderOffset + n
\* (reads drop the fraction).  An array, or a string that is no numeric
\* literal, gives a string that converts to NaN in every read, so that every
\* read of the directory is at offset 0.  A string of the characters of a
\* numeric literal is not modelled.
NumericChars == (48..57) \cup {43, 45, 46, 69, 101}

PointerKind(v) ==
    CASE v.t = "num" -> "num"
      [] v.t = "arr" -> "nan"
      [] OTHER -> IF \E i \in 1..Len(v.s) : v.s[i] \notin NumericChars
                  THEN "nan" ELSE "unmodelled"

\* readTags with every offset NaN: the entry count and every tag id are the
\* 16 bits at offset 0 (the format marker, in no tag table), nothing is read
\* outside the buffer and no entry is kept.
readTagsAtNaN(buf, tags, bigEnd) ==
    IF getUint16(buf, 0, ~bigEnd) \in DOMAIN tags
    THEN [thrown |-> FALSE, unmodelled |-> TRUE, tags |-> EmptyTags]
    ELSE [thrown |-> FALSE, unmodelled |-> FALSE, tags |-> EmptyTags]

\* readTags(dataView, tiffHeaderOffset, tiffHeaderOffset + pointer, table, bigEnd)
readTagsAt(buf, tiffHeaderOffset, pointer, tags, bigEnd) ==
    CASE PointerKind(pointer) = "num" ->
            LET r == readTags(buf, tiffHeaderOffset,
                              tiffHeaderOffset + (pointer.q[1] \div pointer.q[2]),
                              tags, bigEnd)
            IN [thrown |-> r.thrown, unmodelled |-> FALSE, tags |-> r.tags]
      [] PointerKind(pointer) = "nan" -> readTagsAtNaN(buf, tags, bigEnd)
      [] OTHER -> [thrown |-> FALSE, unmodelled |-> TRUE, tags |-> EmptyTags]

Has(tags, k) == k \in DOMAIN tags /\ Truthy(tags[k])

\* a/b + c/d and (a/b) / k
FracAdd(x, y) == Frac(x[1] * y[2] + y[1] * x[2], x[2] * y[2])
FracDiv(x, k) == Frac(x[1], x[2] * k)
FracNeg(x) == <<-x[1], x[2]>>

\* Math.round(x * 10000) / 10000; Math.round rounds halves up.
Round4(x) == Frac((2 * 10000 * x[1] + x[2]) \div (2 * x[2]), 10000)

\* lat[0] + lat[1] / 60, the seconds left out.
DegreesAndMinutes(a) == FracAdd(a[1], FracDiv(a[2], 60))

\* lat[0] + lat[1] / 60 + lat[2] / 3600
DecimalDegrees(a) == FracAdd(FracAdd(a[1], FracDiv(a[2], 60)), FracDiv(a[3], 3600))

\* The try block of the GPS conversion: TRUE when it runs to its end.  It
\* throws for a coordinate that is no array of 3, and on .trim() of a
\* reference that is no string.
GpsConverts(tags) ==
    /\ tags["GPSLatitude"].t = "arr" /\ Len(tags["GPSLatitude"].s) = 3
    /\ tags["GPSLongitude"].t = "arr" /\ Len(tags["GPSLongitude"].s) = 3
    /\ tags["GPSLatitudeRef"].t = "str"
    /\ tags["GPSLongitudeRef"].t = "str"

\* The assignment of tags.GPSLatitude happens before the longitude reference
\* is trimmed; the catch block deletes both either way.
GpsNormalize(tags) ==
    IF ~(Has(tags, "GPSLatitude") /\ Has(tags, "GPSLongitude")
         /\ Has(tags, "GPSLatitudeRef") /\ Has(tags, "GPSLongitudeRef"))
    THEN tags
    ELSE LET converted ==
                 IF GpsConverts(tags)
                 THEN LET latitude == DecimalDegrees(tags["GPSLatitude"].s)
                          longitude == DecimalDegrees(tags["GPSLongitude"].s)
                          north == Trim(tags["GPSLatitudeRef"].s) = <<78>>
                          east == Trim(tags["GPSLongitudeRef"].s) = <<69>>
                      IN SetKey(SetKey(tags, "GPSLatitude",
                                       NumVal(IF north THEN latitude ELSE FracNeg(latitude))),
                                "GPSLongitude",
                                NumVal(IF east THEN longitude ELSE FracNeg(longitude)))
                 ELSE DeleteKey(DeleteKey(tags, "GPSLatitude"), "GPSLongitude")
         IN DeleteKey(DeleteKey(converted, "GPSLatitudeRef"), "GPSLongitudeRef")

RoundTags(tags) ==
    [k \in DOMAIN tags |-> IF tags[k].t = "num" THEN NumVal(Round4(tags[k].q)) ELSE tags[k]]

NotCalled == [kind |-> "notCalled", tags |-> EmptyTags]
ExifNull == [kind |-> "null", tags |-> EmptyTags]
ExifRangeError == [kind |-> "RangeError", tags |-> EmptyTags]
ExifUnmodelled == [kind |-> "unmodelled", tags |-> EmptyTags]
ExifTags(tags) == [kind |-> "tags", tags |-> tags]

NoTagsRead == [thrown |-> FALSE, unmodelled |-> FALSE, tags |-> EmptyTags]

\* return Object.keys(tags).length > 0 ? tags : null
TagsOrNull(tags) == IF DOMAIN tags # {} THEN ExifTags(tags) ELSE ExifNull

\* From the GPS conversion to the return, for the merged tags.
FinishTags(tags) ==
    TagsOrNull(RoundTags(DeleteKey(DeleteKey(GpsNormalize(tags), "ExifIFDPointer"),
                                   "GPSInfoIFDPointer")))

\* for (const tag in gpsTags) tags[tag] = gpsTags[tag], gpsTags as read.
MergeGpsTags(tags, gpsTags) ==
    IF gpsTags.unmodelled THEN ExifUnmodelled
    ELSE IF gpsTags.thrown THEN ExifRangeError
    ELSE FinishTags(MergeTags(tags, gpsTags.tags))

\* if (tags.GPSInfoIFDPointer) { ... }
ReadGpsTags(buf, tiffHeaderOffset, bigEnd, tags) ==
    MergeGpsTags(tags,
                 IF Has(tags, "GPSInfoIFDPointer")
                 THEN readTagsAt(buf, tiffHeaderOffset, tags["GPSInfoIFDPointer"],
                                 GPS_TAGS, bigEnd)
                 ELSE NoTagsRead)

\* for (const tag in exifTags) tags[tag] = exifTags[tag], exifTags as read.
MergeExifTags(buf, tiffHeaderOffset, bigEnd, tags, exifTags) ==
    IF exifTags.unmodelled THEN ExifUnmodelled
    ELSE IF exifTags.thrown THEN ExifRangeError
    ELSE ReadGpsTags(buf, tiffHeaderOffset, bigEnd, MergeTags(tags, exifTags.tags))

\* if (tags.ExifIFDPointer) { ... }, tags being the primary directory as read.
ReadExifTags(buf, tiffHeaderOffset, bigEnd, primary) ==
    IF primary.thrown THEN ExifRangeError
    ELSE MergeExifTags(buf, tiffHeaderOffset, bigEnd, primary.tags,
                       IF Has(primary.tags, "ExifIFDPointer")
                       THEN readTagsAt(buf, tiffHeaderOffset,
                                       primary.tags["ExifIFDPointer"], EXIF_TAGS, bigEnd)
                       ELSE NoTagsRead)

\* const ifdOffset = ...; const tags = readTags(...)
ReadPrimaryTags(buf, tiffHeaderOffset, bigEnd, ifdOffset) ==
    IF ifdOffset = OutOfRange THEN ExifRangeError
    ELSE ReadExifTags(buf, tiffHeaderOffset, bigEnd,
                      readTags(buf, tiffHeaderOffset, tiffHeaderOffset + ifdOffset,
                               EXIF_TAGS, bigEnd))

\* const bigEnd = dataView.getUint16(tiffHeaderOffset) === 0x4D4D
ReadByteOrder(buf, tiffHeaderOffset, order) ==
    IF order = OutOfRange THEN ExifRangeError
    ELSE ReadPrimaryTags(buf, tiffHeaderOffset, order = 19789,
                         getUint32(buf, tiffHeaderOffset + 4, ~(order = 19789)))

\* The body of `if (marker === 0xE1)`, for the segment at `offset`.
DecodeApp1(buf, offset) ==
    IF getUint32(buf, offset + 4, FALSE) = OutOfRange THEN ExifRangeError
    ELSE IF getUint32(buf, offset + 4, FALSE) # 1165519206 THEN ExifNull
    ELSE ReadByteOrder(buf, offset + 10, getUint16(buf, offset + 10, FALSE))

\* let offset = 2
ScanStart == 2

\* offset += 4 + dataView.getUint16(offset + 2): the length taken not to
\* count its own two bytes.
SkipLengthField(buf, offset) == offset + 4 + getUint16(buf, offset + 2, FALSE)

\* offset += 2 + dataView.getUint16(offset + 2)
NextSegment(buf, offset) == offset + 2 + getUint16(buf, offset + 2, FALSE)

\* while (offset < dataView.byteLength) { ... }
RECURSIVE ScanSegments(_, _)
ScanSegments(buf, offset) ==
    IF ~(offset < ByteLength(buf)) THEN ExifNull
    ELSE IF offset + 4 > ByteLength(buf) THEN ExifNull
    ELSE IF getUint8(buf, offset) # 255 THEN ExifNull
    ELSE IF getUint8(buf, offset + 1) = 225 THEN DecodeApp1(buf, offset)
    ELSE ScanSegments(buf, NextSegment(buf, offset))

\* getExifData(arrayBuffer): [kind, tags], kind "null" (no metadata), "tags"
\* (a field map) or "RangeError" (the exception escaped).
getExifData(buf) ==
    LET b0 == getUint8(buf, 0)
        b1 == getUint8(buf, 1)
    IN IF b0 = OutOfRange THEN ExifRangeError
       ELSE IF b0 # 255 THEN ExifNull
       ELSE IF b1 = OutOfRange THEN ExifRangeError
       ELSE IF b1 # 216 THEN ExifNull
       ELSE ScanSegments(buf, ScanStart)

----------------------------------------------------------------------------
(* AppContent state: values *)

\* selectedItem: null, { type: 'folder', data: { path } } or
\* { type: 'image', data: image }.  The images field of a folder selection
\* is read nowhere and is left out.
NoSelection == [type |-> "none"]
FolderSelection(path) == [type |-> "folder", path |-> path]
ImageSelection(image) == [type |-> "image", data |-> image]

\* useState<{ [key: string]: Image[] }>({})
EmptyCache == <<>>

\* The folder paths of the gallery.
FolderA == <<"a">>
FolderAB == <<"a", "/", "b">>
FolderCB == <<"c", "/", "b">>
Folders == {FolderA, FolderAB, FolderCB}

\* No in-flight getImages call is tracked.
NoLoad == <<>>

\* useState<string | null>(null): no object URL.  The URL made of an image's
\* bytes is written as the id of the image.
NoUrl == <<>>

\* MainPanel before a selection: imageUrl null, loading false, error null.
NoViewer == [imageUrl |-> NoUrl, loading |-> FALSE, error |-> FALSE]

\* Bound of the application specification: the images of a folder.
MaxImages == 1

\* What the <img> probe of fetchImage finds: onload with naturalWidth and
\* naturalHeight, or onerror.
LoadedProbe(width, height) == [loaded |-> TRUE, width |-> width, height |-> height]
FailedProbe == [loaded |-> FALSE, width |-> 0, height |-> 0]

ImageSizes == {<<4, 3>>}

\* The gallery of the application specification: getFolders answers with
\* either list, a folder has MaxImages images, localStorage holds nothing or
\* the selection of folder a, the bytes of an image carry metadata, and the
\* probe finds its width and height.
DefaultGallery ==
    [listings |-> {<<FolderA, FolderAB>>, <<FolderAB>>}, images |-> MaxImages,
     saved |-> {NoSelection, FolderSelection(FolderA)},
     blobs |-> {"exif"},
     probes |-> {LoadedProbe(s[1], s[2]) : s \in ImageSizes}]

\* No getImages call was issued before a refresh, and none wrote an entry.
NoStale == [pending |-> [f \in Folders |-> 0], wrote |-> {}]

\* readTags was not called.
NoArgs == [tiffStart |-> 0, dirStart |-> 0, table |-> "none", bigEnd |-> FALSE]
NotRead == [thrown |-> FALSE, called |-> FALSE, tags |-> EmptyTags]

\* getExifData and readTags before they are called.
ExifNotCalled ==
    /\ exifOut = NotCalled
    /\ scanOffset = ScanStart
    /\ readArgs = NoArgs
    /\ readOut = NotRead

\* The application before it is mounted: the state of its variables in the
\* specifications of buildTree and getExifData.
AppNotMounted ==
    /\ folderTree = NotBuilt
    /\ loadingFolders = FALSE
    /\ selectedItem = NoSelection
    /\ saved = FALSE
    /\ imagesByFolder = EmptyCache
    /\ isAppBusy = FALSE
    /\ expandedFolders = {}
    /\ expandedImageLists = {}
    /\ inFlight = [f \in Folders |-> 0]
    /\ tracked = NoLoad
    /\ fetches = <<>>
    /\ failed = {}
    /\ refetchDue = {}
    /\ cacheHits = {}
    /\ stale = NoStale
    /\ concurrent = {}
    /\ viewer = NoViewer
    /\ history = {}
    /\ gallery = DefaultGallery

----------------------------------------------------------------------------
(* SpecTree: buildTree applied to every bounded path list, then to         *)
(* rearrangements of it.                                                   *)

PathStrings == StringsUpTo(PathChars, MaxPathLen)

PathLists == UNION {[1..k -> PathStrings] : k \in 0..MaxPaths}

InitTree ==
    /\ paths \in PathLists
    /\ tree = NotBuilt
    /\ treeOp = "init"
    /\ buffer = <<>>
    /\ ExifNotCalled
    /\ AppNotMounted

BuildTree ==
    /\ tree = NotBuilt
    /\ tree' = buildTree(paths)
    /\ treeOp' = "build"
    /\ UNCHANGED <<paths, exifVars, appVars>>

\* The same paths in another order (two neighbours swapped), built again.
ReorderPaths ==
    /\ tree # NotBuilt
    /\ \E i \in 1..(Len(paths) - 1) :
          /\ paths[i] # paths[i + 1]
          /\ paths' = [paths EXCEPT ![i] = paths[i + 1], ![i + 1] = paths[i]]
    /\ tree' = buildTree(paths')
    /\ treeOp' = "reorder"
    /\ UNCHANGED <<exifVars, appVars>>

\* The same paths with one of them repeated in place of a duplicate-free slot:
\* a path is appended again, or a repeated path is dropped.
DuplicatePath ==
    /\ tree # NotBuilt
    /\ \/ \E i \in 1..Len(paths) :
             /\ Len(paths) < MaxPaths
             /\ paths' = Append(paths, paths[i])
       \/ /\ Len(paths) > 1
          /\ paths[Len(paths)] \in Range(SubSeq(paths, 1, Len(paths) - 1))
          /\ paths' = SubSeq(paths, 1, Len(paths) - 1)
    /\ tree' = buildTree(paths')
    /\ treeOp' = "duplicate"
    /\ UNCHANGED <<exifVars, appVars>>

NextTree == BuildTree \/ ReorderPaths \/ DuplicatePath

SpecTree == InitTree /\ [][NextTree]_vars

----------------------------------------------------------------------------
(* SpecExif: getExifData applied to byte buffers: every short sequence of  *)
(* marker bytes, and every truncation of a JPEG with one APP1 segment      *)
(* holding a TIFF header and a primary directory of one entry.             *)

\* Bound of the exhaustive part: buffers of at most this many bytes.
MaxShortLen == 3

MarkerBytes == {0, 216, 225, 255}

ShortBuffers == UNION {[1..k -> MarkerBytes] : k \in 0..MaxShortLen}

U16(v, bigEnd) ==
    IF bigEnd THEN <<v \div 256, v % 256>> ELSE <<v % 256, v \div 256>>

U32(v, bigEnd) ==
    IF bigEnd
    THEN <<(v \div 16777216) % 256, (v \div 65536) % 256, (v \div 256) % 256, v % 256>>
    ELSE <<v % 256, (v \div 256) % 256, (v \div 65536) % 256, (v \div 16777216) % 256>>

\* One directory entry: tag, format, component count, value or pointer.
EntryBytes(e, bigEnd) ==
    U16(e.tag, bigEnd) \o U16(e.format, bigEnd) \o U32(e.components, bigEnd)
        \o (IF e.inline THEN e.bytes ELSE U32(e.pointer, bigEnd))

\* The entries the buffers are built from.  The value area starts at TIFF
\* offset 22 (8 bytes of header, 2 of count, 12 of entry).
EntryKinds == {"ascii", "rational", "rationals", "short", "long", "byte",
               "format0", "format13", "unknownTag"}

EntryOf(kind, bigEnd, pointer) ==
    CASE kind = "ascii" ->
            [tag |-> 271, format |-> 2, components |-> 6, inline |-> FALSE,
             pointer |-> pointer, bytes |-> <<>>]
      [] kind = "rational" ->
            [tag |-> 282, format |-> 5, components |-> 1, inline |-> FALSE,
             pointer |-> pointer, bytes |-> <<>>]
      [] kind = "rationals" ->
            [tag |-> 282, format |-> 5, components |-> 2, inline |-> FALSE,
             pointer |-> pointer, bytes |-> <<>>]
      [] kind = "short" ->
            [tag |-> 274, format |-> 3, components |-> 1, inline |-> TRUE,
             pointer |-> 0, bytes |-> U16(6, bigEnd) \o <<0, 0>>]
      [] kind = "long" ->
            [tag |-> 256, format |-> 4, components |-> 1, inline |-> TRUE,
             pointer |-> 0, bytes |-> U32(640, bigEnd)]
      [] kind = "byte" ->
            [tag |-> 274, format |-> 1, components |-> 1, inline |-> TRUE,
             pointer |-> 0, bytes |-> <<1, 0, 0, 0>>]
      [] kind = "format0" ->
            [tag |-> 274, format |-> 0, components |-> 1, inline |-> TRUE,
             pointer |-> 0, bytes |-> <<1, 0, 0, 0>>]
      [] kind = "format13" ->
            [tag |-> 274, format |-> 13, components |-> 1, inline |-> TRUE,
             pointer |-> 0, bytes |-> <<1, 0, 0, 0>>]
      [] OTHER ->
            [tag |-> 4660, format |-> 3, components |-> 1, inline |-> TRUE,
             pointer |-> 0, bytes |-> <<1, 0, 0, 0>>]

\* The value area: "Canon" and a NUL for the string, 72/1 and 1/3 for the
\* rationals.
ValueArea(kind, bigEnd) ==
    CASE kind = "ascii" -> <<67, 97, 110, 111, 110, 0>>
      [] kind = "rational" -> U32(72, bigEnd) \o U32(1, bigEnd)
      [] kind = "rationals" ->
            U32(72, bigEnd) \o U32(1, bigEnd) \o U32(1, bigEnd) \o U32(3, bigEnd)
      [] OTHER -> <<>>

Corruptions == {"none", "directoryOffset", "entryCount", "valuePointer", "signature"}

\* A JPEG: the format marker, an optional APP0 segment of 2 payload bytes, and
\* the APP1 segment with the TIFF block.
JpegBuffer(kind, bigEnd, app0, corrupt) ==
    LET ifdOffset == IF corrupt = "directoryOffset" THEN 4096 ELSE 8
        count == IF corrupt = "entryCount" THEN 3 ELSE 1
        pointer == IF corrupt = "valuePointer" THEN 4096 ELSE 22
        tiff == (IF bigEnd THEN <<77, 77>> ELSE <<73, 73>>) \o U16(42, bigEnd)
                    \o U32(ifdOffset, bigEnd) \o U16(count, bigEnd)
                    \o EntryBytes(EntryOf(kind, bigEnd, pointer), bigEnd)
                    \o ValueArea(kind, bigEnd)
        signature == IF corrupt = "signature"
                     THEN <<74, 70, 73, 70>> ELSE <<69, 120, 105, 102>>
        app1 == <<255, 225>> \o U16(8 + Len(tiff), TRUE) \o signature \o <<0, 0>> \o tiff
    IN <<255, 216>> \o (IF app0 THEN <<255, 224, 0, 4, 0, 0>> ELSE <<>>) \o app1

JpegBuffers ==
    {JpegBuffer(kind, bigEnd, app0, corrupt) :
        kind \in EntryKinds, bigEnd \in BOOLEAN, app0 \in BOOLEAN, corrupt \in Corruptions}

\* Every prefix of b, b included: the buffer cut off at any byte.
Truncations(b) == {SubSeq(b, 1, n) : n \in 0..Len(b)}

\* The pieces of a TIFF block with several directories.
Zeros(n) == [i \in 1..n |-> 0]

Pad(bytes, n) == bytes \o Zeros(n - Len(bytes))

TiffHeader(bigEnd) ==
    (IF bigEnd THEN <<77, 77>> ELSE <<73, 73>>) \o U16(42, bigEnd) \o U32(8, bigEnd)

\* A directory: the entry count, then the entries (12 bytes each).
Directory(entries, bigEnd) == U16(Len(entries) \div 12, bigEnd) \o entries

\* A JPEG whose first segment is the APP1 segment holding the TIFF block.
App1Jpeg(tiff) ==
    <<255, 216, 255, 225>> \o U16(8 + Len(tiff), TRUE)
        \o <<69, 120, 105, 102, 0, 0>> \o tiff

ShortEntry(tag, v, bigEnd) ==
    EntryBytes([tag |-> tag, format |-> 3, components |-> 1, inline |-> TRUE,
                pointer |-> 0, bytes |-> U16(v, bigEnd) \o <<0, 0>>], bigEnd)

LongEntry(tag, v, bigEnd) ==
    EntryBytes([tag |-> tag, format |-> 4, components |-> 1, inline |-> TRUE,
                pointer |-> 0, bytes |-> U32(v, bigEnd)], bigEnd)

RationalEntry(tag, components, pointer, bigEnd) ==
    EntryBytes([tag |-> tag, format |-> 5, components |-> components,
                inline |-> FALSE, pointer |-> pointer, bytes |-> <<>>], bigEnd)

\* A string of Len(chars) characters and its NUL, held in the entry itself.
AsciiEntry(tag, chars, bigEnd) ==
    EntryBytes([tag |-> tag, format |-> 2, components |-> Len(chars) + 1,
                inline |-> TRUE, pointer |-> 0, bytes |-> Pad(chars, 4)], bigEnd)

\* The location fields a buffer can carry.  A coordinate is absent, a triple,
\* an array of 2 or a single rational; a reference is absent, empty or a
\* letter.
CoordinateKinds == {"absent", "triple", "pair", "single"}
LatitudeRefs == {"absent", "empty", "N", "S"}
LongitudeRefs == {"absent", "E", "W"}
LatitudeTriples == {<<40, 0, 0>>, <<40, 30, 30>>}
LongitudeTriples == {<<74, 0, 0>>, <<74, 15, 50>>}

\* Which directory carries the GPSInfoIFDPointer field: the primary one, the
\* extended one, or the primary one while the extended one carries an
\* ExifIFDPointer of its own.
PointerCarriers == {"primary", "extended", "both"}

RefEntry(tag, ref, bigEnd) ==
    CASE ref = "absent" -> <<>>
      [] ref = "empty" -> AsciiEntry(tag, <<>>, bigEnd)
      [] ref = "N" -> AsciiEntry(tag, <<78>>, bigEnd)
      [] ref = "S" -> AsciiEntry(tag, <<83>>, bigEnd)
      [] ref = "E" -> AsciiEntry(tag, <<69>>, bigEnd)
      [] OTHER -> AsciiEntry(tag, <<87>>, bigEnd)

CoordinateEntry(tag, kind, pointer, bigEnd) ==
    CASE kind = "absent" -> <<>>
      [] kind = "triple" -> RationalEntry(tag, 3, pointer, bigEnd)
      [] kind = "pair" -> RationalEntry(tag, 2, pointer, bigEnd)
      [] OTHER -> RationalEntry(tag, 1, pointer, bigEnd)

\* Degrees, minutes and seconds as three rationals of denominator 1.
TripleBytes(dms, bigEnd) ==
    U32(dms[1], bigEnd) \o U32(1, bigEnd) \o U32(dms[2], bigEnd) \o U32(1, bigEnd)
        \o U32(dms[3], bigEnd) \o U32(1, bigEnd)

\* The primary directory at TIFF offset 8 and the extended one at 34, of two
\* entries each.
PrimaryEntries(carrier, bigEnd) ==
    CASE carrier = "primary" ->
            ShortEntry(274, 6, bigEnd) \o LongEntry(34853, 60, bigEnd)
      [] carrier = "extended" ->
            ShortEntry(274, 6, bigEnd) \o LongEntry(34665, 34, bigEnd)
      [] OTHER ->
            LongEntry(34665, 34, bigEnd) \o LongEntry(34853, 60, bigEnd)

ExtendedEntries(carrier, bigEnd) ==
    CASE carrier = "primary" ->
            LongEntry(40962, 640, bigEnd) \o LongEntry(40963, 480, bigEnd)
      [] carrier = "extended" ->
            LongEntry(40962, 640, bigEnd) \o LongEntry(34853, 60, bigEnd)
      [] OTHER ->
            LongEntry(40962, 640, bigEnd) \o LongEntry(34665, 8, bigEnd)

\* The location directory at TIFF offset 60, of the fields the case carries;
\* the latitude values are at 110 and the longitude values at 134.
GpsEntries(c) ==
    RefEntry(1, c.latRef, c.bigEnd)
        \o CoordinateEntry(2, c.lat, 110, c.bigEnd)
        \o RefEntry(3, c.lonRef, c.bigEnd)
        \o CoordinateEntry(4, c.lon, 134, c.bigEnd)

GpsCases ==
    [lat : CoordinateKinds, latRef : LatitudeRefs, lon : {"absent", "triple"},
     lonRef : LongitudeRefs, latDms : LatitudeTriples, lonDms : LongitudeTriples,
     bigEnd : BOOLEAN, carrier : PointerCarriers]

\* A JPEG with a primary, an extended and a location directory.
GpsBuffer(c) ==
    App1Jpeg(TiffHeader(c.bigEnd)
                \o Directory(PrimaryEntries(c.carrier, c.bigEnd), c.bigEnd)
                \o Directory(ExtendedEntries(c.carrier, c.bigEnd), c.bigEnd)
                \o Pad(Directory(GpsEntries(c), c.bigEnd), 50)
                \o TripleBytes(c.latDms, c.bigEnd)
                \o TripleBytes(c.lonDms, c.bigEnd))

\* Every case with its buffer.
GpsInputs == {[case |-> c, buf |-> GpsBuffer(c)] : c \in GpsCases}

GpsBuffers == {g.buf : g \in GpsInputs}

ExifBuffers ==
    ShortBuffers \cup UNION {Truncations(b) : b \in JpegBuffers} \cup GpsBuffers

InitExif ==
    /\ buffer \in ExifBuffers
    /\ ExifNotCalled
    /\ paths = <<>>
    /\ tree = NotBuilt
    /\ treeOp = "init"
    /\ AppNotMounted

CallGetExifData ==
    /\ exifOut = NotCalled
    /\ exifOut' = getExifData(buffer)
    /\ UNCHANGED <<buffer, scanOffset, readArgs, readOut, treeVars, appVars>>

NextExif == CallGetExifData

SpecExif == InitExif /\ [][NextExif]_vars

----------------------------------------------------------------------------
(* SpecScan: getExifData run one pass of its while loop at a time, on       *)
(* buffers that begin with the format marker and go on with segments.       *)

\* Bound: a buffer holds at most this many segments after the marker.
MaxSegments == 3

\* The segments: APP0 with length 0, 2, 4 and 3 (the next segment start is
\* then inside it or past its end), a comment segment, bytes that start
\* with no 0xFF, an APP1 segment with another signature, and an APP1
\* segment with an Exif block of one ASCII field.
Segments ==
    {<<255, 224, 0, 0>>, <<255, 224, 0, 2>>, <<255, 224, 0, 4, 0, 0>>,
     <<255, 224, 0, 3, 255>>, <<255, 254, 0, 2>>, <<0, 16, 0, 2>>,
     <<255, 225, 0, 8, 74, 70, 73, 70, 0, 0>>,
     SubSeq(JpegBuffer("ascii", TRUE, FALSE, "none"), 3,
            Len(JpegBuffer("ascii", TRUE, FALSE, "none")))}

RECURSIVE Concat(_)
Concat(segments) ==
    IF segments = <<>> THEN <<>> ELSE Head(segments) \o Concat(Tail(segments))

ScanBuffers ==
    {<<255, 216>> \o Concat(segments) :
        segments \in UNION {[1..k -> Segments] : k \in 0..MaxSegments}}

InitScan ==
    /\ buffer \in ScanBuffers
    /\ ExifNotCalled
    /\ paths = <<>>
    /\ tree = NotBuilt
    /\ treeOp = "init"
    /\ AppNotMounted

\* The pass of the while loop that is next finds the 0xE1 marker.
AtApp1 ==
    /\ scanOffset + 4 <= ByteLength(buffer)
    /\ getUint8(buffer, scanOffset) = 255
    /\ getUint8(buffer, scanOffset + 1) = 225

\* One pass of the while loop that finds no 0xE1 marker, or the end of the
\* loop: the function returns null, or the offset moves to the next segment.
ScanStep ==
    /\ exifOut = NotCalled
    /\ ~AtApp1
    /\ IF ~(scanOffset < ByteLength(buffer)) \/ scanOffset + 4 > ByteLength(buffer)
       THEN exifOut' = ExifNull /\ UNCHANGED scanOffset
       ELSE IF getUint8(buffer, scanOffset) # 255
       THEN exifOut' = ExifNull /\ UNCHANGED scanOffset
       ELSE scanOffset' = NextSegment(buffer, scanOffset) /\ UNCHANGED exifOut
    /\ UNCHANGED <<buffer, readArgs, readOut, treeVars, appVars>>

\* The pass that finds the 0xE1 marker: the body of `if (marker === 0xE1)`,
\* which returns.
DecodeSegment ==
    /\ exifOut = NotCalled
    /\ AtApp1
    /\ exifOut' = DecodeApp1(buffer, scanOffset)
    /\ UNCHANGED <<buffer, scanOffset, readArgs, readOut, treeVars, appVars>>

NextScan == ScanStep \/ DecodeSegment

\* The call runs on: a pass of the loop that can be taken is taken.
SpecScan == InitScan /\ [][NextScan]_vars /\ WF_vars(ScanStep)

----------------------------------------------------------------------------
(* SpecTags: readTags applied to a directory of two entries, with either   *)
(* tag table, in either byte order, the TIFF block at the start of the     *)
(* buffer or 12 bytes into it.                                             *)

\* The entries of the directories: a string and a rational in the value
\* area, a short and a long in the entry, single components of the formats
\* byte, signed long and float, several components (4 undefined bytes, 2
\* shorts), a signed rational, format codes 0 and 13, a tag of no table, and
\* a string and a rational whose value offset is outside the buffer.
TagEntryKinds ==
    {"ascii", "rational", "short", "long", "byte", "slong", "float", "undefined4",
     "shorts", "srational", "format0", "format13", "unknownTag", "asciiOutside",
     "rationalOutside"}

\* The entry of a kind under a tag, its value at `pointer` where it has more
\* than 4 bytes.
TagEntry(tag, kind, pointer, bigEnd) ==
    CASE kind = "ascii" ->
            EntryBytes([tag |-> tag, format |-> 2, components |-> 6,
                        inline |-> FALSE, pointer |-> pointer, bytes |-> <<>>], bigEnd)
      [] kind = "asciiOutside" ->
            EntryBytes([tag |-> tag, format |-> 2, components |-> 6,
                        inline |-> FALSE, pointer |-> 4096, bytes |-> <<>>], bigEnd)
      [] kind = "rational" -> RationalEntry(tag, 1, pointer, bigEnd)
      [] kind = "rationalOutside" -> RationalEntry(tag, 1, 4096, bigEnd)
      [] kind = "short" -> ShortEntry(tag, 6, bigEnd)
      [] kind = "long" -> LongEntry(tag, 640, bigEnd)
      [] kind = "byte" ->
            EntryBytes([tag |-> tag, format |-> 1, components |-> 1,
                        inline |-> TRUE, pointer |-> 0, bytes |-> <<1, 0, 0, 0>>], bigEnd)
      [] kind = "slong" ->
            EntryBytes([tag |-> tag, format |-> 9, components |-> 1,
                        inline |-> TRUE, pointer |-> 0, bytes |-> U32(7, bigEnd)], bigEnd)
      [] kind = "float" ->
            EntryBytes([tag |-> tag, format |-> 11, components |-> 1,
                        inline |-> TRUE, pointer |-> 0, bytes |-> <<63, 128, 0, 0>>], bigEnd)
      [] kind = "undefined4" ->
            EntryBytes([tag |-> tag, format |-> 7, components |-> 4,
                        inline |-> TRUE, pointer |-> 0, bytes |-> <<48, 50, 51, 48>>], bigEnd)
      [] kind = "shorts" ->
            EntryBytes([tag |-> tag, format |-> 3, components |-> 2,
                        inline |-> TRUE, pointer |-> 0,
                        bytes |-> U16(8, bigEnd) \o U16(8, bigEnd)], bigEnd)
      [] kind = "srational" ->
            EntryBytes([tag |-> tag, format |-> 10, components |-> 1,
                        inline |-> FALSE, pointer |-> pointer, bytes |-> <<>>], bigEnd)
      [] kind = "format0" ->
            EntryBytes([tag |-> tag, format |-> 0, components |-> 1,
                        inline |-> TRUE, pointer |-> 0, bytes |-> <<1, 0, 0, 0>>], bigEnd)
      [] kind = "format13" ->
            EntryBytes([tag |-> tag, format |-> 13, components |-> 1,
                        inline |-> TRUE, pointer |-> 0, bytes |-> <<1, 0, 0, 0>>], bigEnd)
      [] OTHER -> ShortEntry(tag + 4660, 6, bigEnd)

\* The 8 bytes of a kind in the value area: "Canon" and its NUL, or 72/1.
TagValueBytes(kind, bigEnd) ==
    IF kind \in {"ascii", "asciiOutside"} THEN <<67, 97, 110, 111, 110, 0, 0, 0>>
    ELSE U32(72, bigEnd) \o U32(1, bigEnd)

\* A TIFF block: the directory at offset 8 holds an entry under tag 1
\* (GPSLatitudeRef) or 271 (Make) and one under tag 2 (GPSLatitude) or 274
\* (Orientation); their values are at offsets 34 and 42.
TagBlock(first, second, table, bigEnd) ==
    TiffHeader(bigEnd)
        \o Directory(TagEntry(IF table = "GPS" THEN 1 ELSE 271, first, 34, bigEnd)
                       \o TagEntry(IF table = "GPS" THEN 2 ELSE 274, second, 42, bigEnd),
                     bigEnd)
        \o TagValueBytes(first, bigEnd) \o TagValueBytes(second, bigEnd)

\* The tag table an argument names.
TagTable(table) == IF table = "GPS" THEN GPS_TAGS ELSE EXIF_TAGS

InitTags ==
    /\ \E first \in TagEntryKinds, second \in TagEntryKinds,
          table \in {"EXIF", "GPS"}, bigEnd \in BOOLEAN, tiffStart \in {0, 12} :
          /\ buffer = Zeros(tiffStart) \o TagBlock(first, second, table, bigEnd)
          /\ readArgs = [tiffStart |-> tiffStart, dirStart |-> tiffStart + 8,
                         table |-> table, bigEnd |-> bigEnd]
    /\ readOut = NotRead
    /\ exifOut = NotCalled
    /\ scanOffset = ScanStart
    /\ paths = <<>>
    /\ tree = NotBuilt
    /\ treeOp = "init"
    /\ AppNotMounted

\* What a call of readTags did: [thrown, called, tags].
ReadResult(r) == [thrown |-> r.thrown, called |-> TRUE, tags |-> r.tags]

CallReadTags ==
    /\ ~readOut.called
    /\ readOut' = ReadResult(readTags(buffer, readArgs.tiffStart, readArgs.dirStart,
                                      TagTable(readArgs.table), readArgs.bigEnd))
    /\ UNCHANGED <<buffer, readArgs, exifOut, scanOffset, treeVars, appVars>>

NextTags == CallReadTags

SpecTags == InitTags /\ [][NextTags]_vars

----------------------------------------------------------------------------
(* Strings of the application *)

\* s.lastIndexOf('/') counted from 1, 0 when there is none.
RECURSIVE LastIndexOfSlash(_, _)
LastIndexOfSlash(s, i) ==
    IF i < 1 THEN 0
    ELSE IF s[i] = "/" THEN i
    ELSE LastIndexOfSlash(s, i - 1)

\* s.substring(0, s.lastIndexOf('/')): substring takes a negative end as 0.
FolderOf(s) == SubSeq(s, 1, LastIndexOfSlash(s, Len(s)) - 1)

\* s.indexOf(ch) from position i, 0 when there is none.
RECURSIVE IndexOfChar(_, _, _)
IndexOfChar(s, ch, i) ==
    IF i > Len(s) THEN 0
    ELSE IF s[i] = ch THEN i
    ELSE IndexOfChar(s, ch, i + 1)

\* s.split(ch)
RECURSIVE SplitOn(_, _)
SplitOn(s, ch) ==
    LET k == IndexOfChar(s, ch, 1)
    IN IF k = 0 THEN <<s>>
       ELSE <<SubSeq(s, 1, k - 1)>> \o SplitOn(SubSeq(s, k + 1, Len(s)), ch)

\* array.pop() of a non-empty array
Pop(a) == a[Len(a)]

UpperCase == ("J" :> "j") @@ ("P" :> "p") @@ ("G" :> "g")

\* s.toLowerCase()
ToLowerCase(s) ==
    [i \in 1..Len(s) |-> IF s[i] \in DOMAIN UpperCase THEN UpperCase[s[i]] ELSE s[i]]

\* The order name.localeCompare gives the characters of folder names.
Collation == <<"a", "b", "c">>

CharRank(c) == CHOOSE i \in 1..Len(Collation) : Collation[i] = c

\* a.localeCompare(b) < 0
RECURSIVE LocaleLess(_, _)
LocaleLess(a, b) ==
    IF b = <<>> THEN FALSE
    ELSE IF a = <<>> THEN TRUE
    ELSE IF Head(a) = Head(b) THEN LocaleLess(Tail(a), Tail(b))
    ELSE CharRank(Head(a)) < CharRank(Head(b))

\* The prefixes a path's segments add up to, as the loops of the LeftPanel
\* selection effect and of toggleFolder build them, over the first n segments.
RECURSIVE PrefixChain(_, _, _)
PrefixChain(parts, n, currentPath) ==
    IF n = 0 \/ parts = <<>> THEN {}
    ELSE LET next == JoinPath(currentPath, Head(parts))
         IN {next} \cup PrefixChain(Tail(parts), n - 1, next)

----------------------------------------------------------------------------
(* Image records *)

\* { ...img, ...details }: the keys of details override those of img.
Spread(img, details) ==
    [k \in DOMAIN img \cup DOMAIN details |->
        IF k \in DOMAIN details THEN details[k] ELSE img[k]]

\* The record loadImagesForFolder makes of a path returned by getImages.
ImageOfPath(fullPath) ==
    LET popped == Pop(Split(fullPath))
        ext == ToLowerCase(Pop(SplitOn(fullPath, ".")))
    IN [id |-> fullPath,
        name |-> IF popped # <<>> THEN popped ELSE fullPath,
        fullPath |-> fullPath,
        format |-> IF ext # <<>> THEN ext ELSE <<"u", "n", "k", "n", "o", "w", "n">>]

\* The record the mount effect makes of a saved image selection.
RestoredImage(path) ==
    LET popped == Pop(Split(path))
    IN [id |-> path,
        name |-> IF popped # <<>> THEN popped ELSE path,
        fullPath |-> path]

\* detailsToUpdate.exif = exifData ?? undefined
ExifUndefined == [kind |-> "undefined", tags |-> EmptyTags]

Jpg == <<"j", "p", "g">>
Jpeg == <<"j", "p", "e", "g">>

IsJpeg(image) == "format" \in DOMAIN image /\ image.format \in {Jpg, Jpeg}

\* !image.width || !image.height || !image.fileSize
SizeMissing(image) ==
    \/ "width" \notin DOMAIN image \/ image.width = 0
    \/ "height" \notin DOMAIN image \/ image.height = 0
    \/ "fileSize" \notin DOMAIN image \/ image.fileSize = 0

\* detailsAreKnown of fetchImage
DetailsAreKnown(image) ==
    /\ ~SizeMissing(image)
    /\ ("exif" \in DOMAIN image \/ ~IsJpeg(image))

----------------------------------------------------------------------------
(* The tree as LeftPanel and findFirstSelectablePath walk it *)

ChildRoutes(t, r) ==
    {c \in DOMAIN t : Len(c) = Len(r) + 1 /\ SubSeq(c, 1, Len(r)) = r}

HasChildren(t, r) == ChildRoutes(t, r) # {}

\* Object.values(node.children).sort((a, b) => a.name.localeCompare(b.name))
RECURSIVE SortedByName(_, _)
SortedByName(t, rs) ==
    IF rs = {} THEN <<>>
    ELSE LET first == CHOOSE r \in rs :
                          \A o \in rs \ {r} : LocaleLess(t[r].name, t[o].name)
         IN <<first>> \o SortedByName(t, rs \ {first})

NoPath == [found |-> FALSE, path |-> <<>>]
FoundPath(p) == [found |-> TRUE, path |-> p]

RECURSIVE findFirstSelectablePath(_, _)
RECURSIVE FirstAmong(_, _, _)
\* the for loop of findFirstSelectablePath: a child's empty path is falsy
FirstAmong(t, children, i) ==
    IF i > Len(children) THEN NoPath
    ELSE LET foundPath == findFirstSelectablePath(t, children[i])
         IN IF foundPath.found /\ foundPath.path # <<>> THEN foundPath
            ELSE FirstAmong(t, children, i + 1)

findFirstSelectablePath(t, r) ==
    IF t[r].isSelectable THEN FoundPath(t[r].path)
    ELSE FirstAmong(t, SortedByName(t, ChildRoutes(t, r)), 1)

\* A node's <li> is on screen when every ancestor below the root is expanded.
Rendered(t, expanded, r) ==
    /\ r \in DOMAIN t
    /\ r # <<>>
    /\ \A k \in 1..(Len(r) - 1) : t[SubSeq(r, 1, k)].path \in expanded

----------------------------------------------------------------------------
(* AppContent, LeftPanel and MainPanel: handlers and effects.              *)
(*                                                                         *)
(* A handler or an effect is an operator from the component state st to    *)
(* the component state after it; st has one field per variable the         *)
(* handlers write.  A closure reads the state of the render it was made    *)
(* in, which is st: no event is handled between a state update and the     *)
(* render that follows it.                                                 *)

\* Bounds of the application specification.
MaxFetches == 2
MaxImageFetches == 1
MaxSuperseded == 1

CurrentSt ==
    [selectedItem |-> selectedItem, imagesByFolder |-> imagesByFolder,
     saved |-> saved, isAppBusy |-> isAppBusy,
     expandedFolders |-> expandedFolders,
     expandedImageLists |-> expandedImageLists,
     inFlight |-> inFlight, tracked |-> tracked, fetches |-> fetches,
     refetchDue |-> refetchDue, cacheHits |-> {}, stale |-> stale,
     concurrent |-> concurrent, viewer |-> viewer]

\* A reading that takes the empty list for falsy.
HasNonEmptyEntry(cache, folderPath) ==
    folderPath \in DOMAIN cache /\ cache[folderPath] # <<>>

\* imagesByFolder[folderPath] is truthy when the key is present: an array,
\* the empty one included, is truthy.
HasEntry(cache, folderPath) == folderPath \in DOMAIN cache

\* The early returns the run records.
Hit(folderPath) == IF "cacheHits" \in history THEN {folderPath} ELSE {}

\* loadImagesForFolder without its early return.
loadImagesUnguarded(st, folderPath) ==
    [st EXCEPT !.isAppBusy = TRUE,
               !.inFlight[folderPath] = @ + 1,
               !.refetchDue = @ \ {folderPath}]

\* loadImagesForFolder up to its await: the early return when the folder has
\* an entry, else setIsAppBusy(true) and the getImages call.
loadImagesForFolder(st, folderPath) ==
    IF HasEntry(st.imagesByFolder, folderPath)
    THEN [st EXCEPT !.refetchDue = @ \ {folderPath},
                    !.cacheHits = @ \cup Hit(folderPath)]
    ELSE [st EXCEPT !.isAppBusy = TRUE,
                    !.inFlight[folderPath] = @ + 1,
                    !.refetchDue = @ \ {folderPath}]

\* A settle that leaves the cache as it was.
DropResult(cache, folderPath, images) == cache

\* setImagesByFolder({ [folderPath]: images }): the entries of the other
\* folders not carried over.
StoreAlone(cache, folderPath, images) == folderPath :> images

\* setImagesByFolder(prev => ({ ...prev, [folderPath]: images }))
StoreResult(cache, folderPath, images) ==
    [k \in DOMAIN cache \cup {folderPath} |->
        IF k = folderPath THEN images ELSE cache[k]]

\* The image list a resolved getImages call leaves in the cache.
RECURSIVE ImagesOfPaths(_)
ImagesOfPaths(imagePaths) ==
    IF imagePaths = <<>> THEN <<>>
    ELSE <<ImageOfPath(Head(imagePaths))>> \o ImagesOfPaths(Tail(imagePaths))

\* handleUpdateImageDetails, with an entry made for a folder that has none.
UpdateOrCreateEntry(cache, imageId, details) ==
    LET folderPath == FolderOf(imageId)
    IN IF folderPath \notin DOMAIN cache
       THEN StoreResult(cache, folderPath, <<Spread([id |-> imageId], details)>>)
       ELSE [cache EXCEPT ![folderPath] =
                [i \in 1..Len(@) |->
                    IF @[i].id = imageId THEN Spread(@[i], details) ELSE @[i]]]

\* handleUpdateImageDetails merging the details into every record of the
\* folder's list.
UpdateEveryRecord(cache, imageId, details) ==
    LET folderPath == FolderOf(imageId)
    IN IF folderPath \notin DOMAIN cache THEN cache
       ELSE [cache EXCEPT ![folderPath] =
                [i \in 1..Len(@) |-> Spread(@[i], details)]]

\* handleUpdateImageDetails, the setImagesByFolder updater.
UpdateCachedDetails(cache, imageId, details) ==
    LET folderPath == FolderOf(imageId)
    IN IF folderPath \notin DOMAIN cache THEN cache
       ELSE [cache EXCEPT ![folderPath] =
                [i \in 1..Len(@) |->
                    IF @[i].id = imageId THEN Spread(@[i], details) ELSE @[i]]]

\* handleUpdateImageDetails, the setSelectedItem updater.
SelectionMatches(sel, imageId) == sel.type = "image" /\ sel.data.id = imageId

UpdateSelectedDetails(sel, imageId, details) ==
    IF SelectionMatches(sel, imageId)
    THEN ImageSelection(Spread(sel.data, details))
    ELSE sel

\* A toggle that only adds the path to the set or takes it out, as
\* toggleStory does.
ToggleMembership(expanded, path) ==
    IF path \in expanded THEN expanded \ {path} ELSE expanded \cup {path}

\* toggleFolder: the ancestors when the path is expanded, else the ancestors
\* and the path.
toggleFolder(expanded, path) ==
    LET parts == Split(path)
    IN IF path \in expanded
       THEN PrefixChain(parts, Len(parts) - 1, <<>>)
       ELSE PrefixChain(parts, Len(parts), <<>>)

\* toggleImageList
toggleImageList(lists, path) ==
    IF path \in lists THEN lists \ {path} ELSE lists \cup {path}

\* activeFolderPath of LeftPanel; the root's empty path stands for null only
\* when nothing is selected, a case ActiveIs tells apart.
ActiveIs(sel, path) ==
    \/ sel.type = "folder" /\ sel.path = path
    \/ sel.type = "image" /\ FolderOf(sel.data.fullPath) = path

\* ---- effects

\* LeftPanel, the effect on [selectedItem, imagesByFolder, loadImagesForFolder]
LeftPanelSelectionEffect(st) ==
    IF st.selectedItem.type = "image"
    THEN LET folderPath == FolderOf(st.selectedItem.data.fullPath)
             parts == Split(folderPath)
         IN [st EXCEPT !.expandedFolders = PrefixChain(parts, Len(parts), <<>>),
                       !.expandedImageLists = @ \cup {folderPath}]
    ELSE IF st.selectedItem.type = "folder"
    THEN LET folderPath == st.selectedItem.path
         IN IF folderPath \notin st.expandedImageLists
            THEN LET loaded == IF ~HasEntry(st.imagesByFolder, folderPath)
                               THEN loadImagesForFolder(st, folderPath)
                               ELSE st
                 IN [loaded EXCEPT !.expandedImageLists = @ \cup {folderPath}]
            ELSE st
    ELSE st

\* The fetchImage calls that outlive the cleanup of the effect that made
\* them: one that waits for getImageData returns at `if (!isActive) return`
\* or only logs, and is followed only in the runs that keep the viewer; one
\* that waits for the image details still calls onUpdateImageDetails.
RECURSIVE Deactivated(_)
Deactivated(fs) ==
    IF fs = <<>> THEN <<>>
    ELSE IF Head(fs).phase = "details" \/ "viewer" \in history
    THEN <<[Head(fs) EXCEPT !.active = FALSE]>> \o Deactivated(Tail(fs))
    ELSE Deactivated(Tail(fs))

\* setImageUrl(url) whatever isActive says.
ShowAnyImage(v, fetch) == [v EXCEPT !.imageUrl = fetch.image.id]

\* if (!isActive) return; ... setImageUrl(url)
ShowImage(v, fetch) ==
    IF fetch.active THEN [v EXCEPT !.imageUrl = fetch.image.id] ELSE v

\* catch: if (isActive) setError(message)
ShowError(v, fetch) == IF fetch.active THEN [v EXCEPT !.error = TRUE] ELSE v

\* finally: if (isActive) setLoading(false)
EndLoading(v, fetch) == IF fetch.active THEN [v EXCEPT !.loading = FALSE] ELSE v

\* finally: if (isActive) setIsAppBusy(false)
EndBusy(busy, fetch) == IF fetch.active THEN FALSE ELSE busy

\* The start of the fetch effect: setImageUrl(null), setError(null), and
\* setLoading(false) or, in fetchImage, setLoading(true).
StartViewer(v, isLoading) ==
    [imageUrl |-> NoUrl, loading |-> isLoading, error |-> FALSE]

\* MainPanel, the effect on [selectedItem, ...]: the cleanup of the previous
\* run, then fetchImage up to its first await.
MainPanelFetchEffect(st) ==
    LET kept == Deactivated(st.fetches)
    IN IF st.selectedItem.type # "image"
       THEN [st EXCEPT !.fetches = kept,
                       !.viewer = StartViewer(@, FALSE)]
       ELSE [st EXCEPT !.fetches = Append(kept, [image |-> st.selectedItem.data,
                                                 active |-> TRUE,
                                                 phase |-> "data"]),
                       !.isAppBusy = TRUE,
                       !.viewer = StartViewer(@, TRUE)]

\* AppContent, the effect that saves the selection.
SaveSelectionEffect(st) ==
    IF st.selectedItem.type # "none" THEN [st EXCEPT !.saved = TRUE] ELSE st

\* AppContent, the effect that loads data for the selected item.
LoadSelectedFolderEffect(st) ==
    IF st.selectedItem.type = "folder"
       /\ ~HasEntry(st.imagesByFolder, st.selectedItem.path)
    THEN loadImagesForFolder(st, st.selectedItem.path)
    ELSE st

\* AppContent, the default selection effect.
DefaultSelectionEffect(st, t) ==
    IF ~st.saved /\ st.selectedItem.type = "none" /\ t # NotBuilt
    THEN LET firstPath == findFirstSelectablePath(t, <<>>)
         IN IF firstPath.found /\ firstPath.path # <<>>
            THEN [st EXCEPT !.selectedItem = FolderSelection(firstPath.path)]
            ELSE st
    ELSE st

\* The one element of a singleton set.
Only(S) == CHOOSE x \in S : TRUE

\* The effects of one commit, those of the children first, each run when one
\* of its dependencies changed: LeftPanel's selection effect, MainPanel's
\* fetch effect, then AppContent's save, load and default selection effects.
RunEffects(st, t, selChanged, cacheChanged, treeChanged) ==
    Only({IF selChanged \/ treeChanged THEN DefaultSelectionEffect(s4, t) ELSE s4 :
          s4 \in {IF selChanged \/ cacheChanged THEN LoadSelectedFolderEffect(s3) ELSE s3 :
          s3 \in {IF selChanged THEN SaveSelectionEffect(s2) ELSE s2 :
          s2 \in {IF selChanged THEN MainPanelFetchEffect(s1) ELSE s1 :
          s1 \in {IF selChanged \/ cacheChanged THEN LeftPanelSelectionEffect(s0) ELSE s0 :
          s0 \in {st}}}}}})

\* A render and the renders its effects bring about: the default selection
\* effect sets selectedItem, which commits once more.
Rerender(before, after, t) ==
    IF after.selectedItem # before.selectedItem
    THEN RunEffects(after, t, TRUE, FALSE, FALSE)
    ELSE after

Render(st, t, selChanged, cacheChanged, treeChanged) ==
    Only(UNION {{Rerender(s0, s, t) :
                    s \in {RunEffects(s0, t, selChanged, cacheChanged, treeChanged)}} :
                s0 \in {st}})

\* Sum of f[x] over the set S.
RECURSIVE SumOver(_, _)
SumOver(f, S) ==
    IF S = {} THEN 0
    ELSE LET x == CHOOSE y \in S : TRUE
         IN f[x] + SumOver(f, S \ {x})

\* The fetchImage calls that wait for getImageData while their effect has
\* been cleaned up.
Superseded(fs) == {i \in 1..Len(fs) : ~fs[i].active /\ fs[i].phase = "data"}

\* The bounds: a step of the user, or the end of an image fetch, is taken
\* only when it leaves at most MaxFetches getImages calls and MaxImageFetches
\* fetchImage calls in flight.
WithinBounds(st) ==
    /\ SumOver(st.inFlight, Folders) <= MaxFetches
    /\ Len(st.fetches) - Cardinality(Superseded(st.fetches)) <= MaxImageFetches
    /\ Cardinality(Superseded(st.fetches)) <= MaxSuperseded

\* The folders with a getImages call in flight while another folder has one.
Overlapping(calls) ==
    {f \in Folders : calls[f] > 0 /\ \E g \in Folders \ {f} : calls[g] > 0}

\* The state after a handler and its renders.
Takes(st) ==
    /\ selectedItem' = st.selectedItem
    /\ imagesByFolder' = st.imagesByFolder
    /\ saved' = st.saved
    /\ isAppBusy' = st.isAppBusy
    /\ expandedFolders' = st.expandedFolders
    /\ expandedImageLists' = st.expandedImageLists
    /\ inFlight' = st.inFlight
    /\ tracked' \in IF st.tracked = NoLoad /\ "tracked" \in history
                    THEN {NoLoad} \cup {f \in Folders : st.inFlight[f] > inFlight[f]}
                    ELSE {st.tracked}
    /\ fetches' = st.fetches
    /\ refetchDue' = st.refetchDue
    /\ cacheHits' = st.cacheHits
    /\ stale' = st.stale
    /\ concurrent' = IF "concurrent" \in history
                     THEN st.concurrent \cup Overlapping(st.inFlight) ELSE {}
    /\ viewer' = IF "viewer" \in history THEN st.viewer ELSE NoViewer
    /\ UNCHANGED <<treeVars, exifVars, history, gallery>>

\* A step of the user or the end of an image fetch.
Commit(after) == \E st \in {after} : WithinBounds(st) /\ Takes(st)

\* A getImages call settles: its own place in flight is freed, and the calls
\* the re-run effects start are not held back by the bound.
CommitSettled(after) == \E st \in {after} : Takes(st)

----------------------------------------------------------------------------
(* Spec: the application from its mount on.                                *)

\* What getFolders can answer.
FolderListings == gallery.listings

\* The file names of a folder's images, in the order getImages lists them.
ImageNames == <<<<"x", ".", "j", "p", "g">>, <<"y">>, <<"z", ".", "J", "P", "G">>>>

ImagePaths(folderPath) ==
    [i \in 1..Min(gallery.images, Len(ImageNames)) |->
        folderPath \o <<"/">> \o ImageNames[i]]

\* What getImages can answer for a folder: the first k of its images.
ImageListings(folderPath) ==
    {SubSeq(ImagePaths(folderPath), 1, k) : k \in 0..Len(ImagePaths(folderPath))}

\* What localStorage can hold at the mount.
SavedSelections == gallery.saved

\* The bytes getImageData can answer with, and what the <img> probe can find.
BlobOf(kind) ==
    IF kind = "exif" THEN JpegBuffer("ascii", TRUE, FALSE, "none")
    ELSE <<255, 216, 255, 224, 0, 4, 0, 0>>

ImageBlobs == {BlobOf(kind) : kind \in gallery.blobs}

\* getExifData(arrayBuffer) of the bytes getImageData can answer with,
\* computed once.
ExifOfBlobs ==
    {[blob |-> BlobOf(kind), exifData |-> getExifData(BlobOf(kind))] :
        kind \in {"exif", "plain"}}

ExifDataOf(blob) == (CHOOSE e \in ExifOfBlobs : e.blob = blob).exifData
ProbeResults == gallery.probes

\* The mount: the first render with nothing selected, whose effects restore
\* the saved selection and start fetchFolderTree, then the render of the
\* restored selection.
InitIn(kept, served) ==
    /\ history = kept
    /\ gallery = served
    /\ paths = <<>>
    /\ tree = NotBuilt
    /\ treeOp = "init"
    /\ buffer = <<>>
    /\ ExifNotCalled
    /\ folderTree = NotBuilt
    /\ loadingFolders = TRUE
    /\ failed = {}
    /\ \E restored \in SavedSelections :
          LET st == Render([selectedItem |-> restored,
                            imagesByFolder |-> EmptyCache,
                            saved |-> restored # NoSelection,
                            isAppBusy |-> FALSE,
                            expandedFolders |-> {},
                            expandedImageLists |-> {},
                            inFlight |-> [f \in Folders |-> 0],
                            tracked |-> NoLoad,
                            fetches |-> <<>>,
                            refetchDue |-> {},
                            cacheHits |-> {},
                            stale |-> NoStale,
                            concurrent |-> {},
                            viewer |-> NoViewer],
                           NotBuilt, restored # NoSelection, FALSE, FALSE)
          IN /\ selectedItem = st.selectedItem
             /\ imagesByFolder = st.imagesByFolder
             /\ saved = st.saved
             /\ isAppBusy = st.isAppBusy
             /\ expandedFolders = st.expandedFolders
             /\ expandedImageLists = st.expandedImageLists
             /\ inFlight = st.inFlight
             /\ tracked \in IF "tracked" \in kept
                           THEN {NoLoad} \cup {f \in Folders : st.inFlight[f] > 0}
                           ELSE {NoLoad}
             /\ fetches = st.fetches
             /\ refetchDue = st.refetchDue
             /\ cacheHits = st.cacheHits
             /\ stale = st.stale
             /\ concurrent = IF "concurrent" \in kept
                             THEN Overlapping(st.inFlight) ELSE {}
             /\ viewer = IF "viewer" \in kept THEN st.viewer ELSE NoViewer

\* The mount in the gallery of the application specification.
InitApp(kept) == InitIn(kept, DefaultGallery)

\* fetchFolderTree: getFolders resolves.
FolderTreeFetched ==
    /\ loadingFolders
    /\ \E listing \in FolderListings :
          \E t \in {buildTree(listing)} :
             /\ folderTree' = t
             /\ Commit(Render(CurrentSt, t, FALSE, FALSE, TRUE))
    /\ loadingFolders' = FALSE
    /\ UNCHANGED failed

\* fetchFolderTree: getFolders rejects.
FolderTreeFailed ==
    /\ loadingFolders
    /\ loadingFolders' = FALSE
    /\ Commit(CurrentSt)
    /\ UNCHANGED <<folderTree, failed>>

\* handleRefreshFolders, the refresh button (disabled while loading.folders).
RefreshFolders ==
    /\ ~loadingFolders
    /\ LET st == [CurrentSt EXCEPT !.imagesByFolder = EmptyCache,
                                   !.selectedItem = NoSelection,
                                   !.saved = FALSE,
                                   !.refetchDue =
                                       IF "refetchDue" \in history
                                       THEN DOMAIN imagesByFolder ELSE {},
                                   !.stale =
                                       IF "stale" \in history
                                       THEN [pending |-> inFlight, wrote |-> {}]
                                       ELSE NoStale,
                                   !.concurrent = {}]
       IN Commit(Render(st, folderTree, selectedItem # NoSelection, TRUE, FALSE))
    /\ loadingFolders' = TRUE
    /\ failed' = {}
    /\ UNCHANGED folderTree

\* Node.handleSelectNode: a click on a folder row.
SelectNode ==
    /\ folderTree # NotBuilt
    /\ \E r \in DOMAIN folderTree :
          /\ Rendered(folderTree, expandedFolders, r)
          /\ LET node == folderTree[r]
                 st == CurrentSt
             IN IF ActiveIs(selectedItem, node.path) /\ HasChildren(folderTree, r)
                THEN Commit([st EXCEPT !.expandedFolders = toggleFolder(@, node.path)])
                ELSE IF node.isSelectable
                THEN Commit(Render(
                        [st EXCEPT !.selectedItem = FolderSelection(node.path),
                                   !.expandedFolders =
                                       IF node.path \in @ THEN @
                                       ELSE toggleFolder(@, node.path)],
                        folderTree, TRUE, FALSE, FALSE))
                ELSE /\ HasChildren(folderTree, r)
                     /\ Commit([st EXCEPT !.expandedFolders = toggleFolder(@, node.path)])
    /\ UNCHANGED <<folderTree, loadingFolders, failed>>

\* The expand button of a folder row: togglePath(node.path).
ToggleFolder ==
    /\ folderTree # NotBuilt
    /\ \E r \in DOMAIN folderTree :
          /\ Rendered(folderTree, expandedFolders, r)
          /\ HasChildren(folderTree, r)
          /\ Commit([CurrentSt EXCEPT
                        !.expandedFolders = toggleFolder(@, folderTree[r].path)])
    /\ UNCHANGED <<folderTree, loadingFolders, failed>>

\* Node.handleToggleImageList: the image list button of a selectable folder.
ToggleImageList ==
    /\ folderTree # NotBuilt
    /\ \E r \in DOMAIN folderTree :
          /\ Rendered(folderTree, expandedFolders, r)
          /\ folderTree[r].isSelectable
          /\ LET path == folderTree[r].path
                 loaded == IF ~HasEntry(imagesByFolder, path)
                           THEN loadImagesForFolder(CurrentSt, path)
                           ELSE CurrentSt
             IN Commit([loaded EXCEPT
                           !.expandedImageLists = toggleImageList(@, path)])
    /\ UNCHANGED <<folderTree, loadingFolders, failed>>

\* loadImagesForFolder called through the prop AppContent hands to LeftPanel,
\* for a folder of the tree.
EnsureLoaded ==
    /\ folderTree # NotBuilt
    /\ \E r \in DOMAIN folderTree :
          /\ folderTree[r].isSelectable
          /\ Commit(loadImagesForFolder(CurrentSt, folderTree[r].path))
    /\ UNCHANGED <<folderTree, loadingFolders, failed>>

\* A click on an image of a folder's expanded image list.
SelectListImage ==
    /\ folderTree # NotBuilt
    /\ \E r \in DOMAIN folderTree :
          /\ Rendered(folderTree, expandedFolders, r)
          /\ folderTree[r].isSelectable
          /\ folderTree[r].path \in expandedImageLists
          /\ HasEntry(imagesByFolder, folderTree[r].path)
          /\ \E i \in 1..Len(imagesByFolder[folderTree[r].path]) :
                Commit(Render(
                    [CurrentSt EXCEPT !.selectedItem =
                        ImageSelection(imagesByFolder[folderTree[r].path][i])],
                    folderTree, TRUE, FALSE, FALSE))
    /\ UNCHANGED <<folderTree, loadingFolders, failed>>

\* handleThumbnailClick: a thumbnail of the selected folder.
ThumbnailClick ==
    /\ selectedItem.type = "folder"
    /\ HasEntry(imagesByFolder, selectedItem.path)
    /\ \E i \in 1..Len(imagesByFolder[selectedItem.path]) :
          Commit(Render(
              [CurrentSt EXCEPT !.selectedItem =
                  ImageSelection(imagesByFolder[selectedItem.path][i])],
              folderTree, TRUE, FALSE, FALSE))
    /\ UNCHANGED <<folderTree, loadingFolders, failed>>

\* imageList and currentIndex of MainPanel: findIndex gives 0 for -1 here.
CurrentIndex(list, sel) ==
    IF \E i \in 1..Len(list) : list[i].id = sel.data.id
    THEN CHOOSE i \in 1..Len(list) :
            /\ list[i].id = sel.data.id
            /\ \A j \in 1..(i - 1) : list[j].id # sel.data.id
    ELSE 0

\* A navigation that stops at the ends of the list.
ClampedIndex(currentIndex, length, direction) ==
    IF direction = "next"
    THEN (IF currentIndex < length THEN currentIndex + 1 ELSE currentIndex)
    ELSE (IF currentIndex > 1 THEN currentIndex - 1 ELSE currentIndex)

\* newIndex of navigateImage; the indices here count from 1, those of the
\* code from 0.
NewIndex(currentIndex, length, direction) ==
    IF direction = "next"
    THEN (((currentIndex - 1) + 1) % length) + 1
    ELSE (((currentIndex - 1) - 1 + length) % length) + 1

\* navigateImage: the arrow keys and the arrow buttons.
NavigateImage ==
    /\ selectedItem.type = "image"
    /\ HasEntry(imagesByFolder, FolderOf(selectedItem.data.fullPath))
    /\ LET imageList == imagesByFolder[FolderOf(selectedItem.data.fullPath)]
           currentIndex == CurrentIndex(imageList, selectedItem)
       IN /\ currentIndex # 0
          /\ \E direction \in {"next", "prev"} :
                LET newIndex == NewIndex(currentIndex, Len(imageList), direction)
                IN Commit(Render(
                       [CurrentSt EXCEPT !.selectedItem =
                           ImageSelection(imageList[newIndex])],
                       folderTree, TRUE, FALSE, FALSE))
    /\ UNCHANGED <<folderTree, loadingFolders, failed>>

\* handleCloseImageView: Escape or the close button.
CloseImageView ==
    /\ selectedItem.type = "image"
    /\ HasEntry(imagesByFolder, FolderOf(selectedItem.data.fullPath))
    /\ Commit(Render(
           [CurrentSt EXCEPT !.selectedItem =
               FolderSelection(FolderOf(selectedItem.data.fullPath))],
           folderTree, TRUE, FALSE, FALSE))
    /\ UNCHANGED <<folderTree, loadingFolders, failed>>

\* Which of the folder's in-flight getImages calls settles: the tracked one,
\* or another one; one issued before the last refresh, or a later one.
Settling(st, folderPath, theTracked, isStale) ==
    [st EXCEPT !.inFlight[folderPath] = @ - 1,
               !.tracked = IF theTracked THEN NoLoad ELSE @,
               !.stale = IF isStale
                         THEN [pending |-> [@.pending EXCEPT ![folderPath] = @ - 1],
                               wrote |-> @.wrote \cup {folderPath}]
                         ELSE [@ EXCEPT !.wrote = @ \ {folderPath}]]

CanSettle(folderPath, theTracked, isStale) ==
    /\ IF theTracked THEN tracked = folderPath
       ELSE inFlight[folderPath] > (IF tracked = folderPath THEN 1 ELSE 0)
    /\ IF isStale THEN stale.pending[folderPath] > 0
       ELSE inFlight[folderPath] > stale.pending[folderPath]

\* loadImagesForFolder after its await: getImages resolved with a list.
LoadResolves ==
    \E folderPath \in Folders, theTracked \in BOOLEAN, isStale \in BOOLEAN :
       /\ CanSettle(folderPath, theTracked, isStale)
       /\ \E imagePaths \in ImageListings(folderPath) :
             LET st == [Settling(CurrentSt, folderPath, theTracked, isStale) EXCEPT
                           !.imagesByFolder =
                               StoreResult(@, folderPath, ImagesOfPaths(imagePaths)),
                           !.isAppBusy = FALSE]
             IN CommitSettled(Render(st, folderTree, FALSE, TRUE, FALSE))
       /\ UNCHANGED <<folderTree, loadingFolders, failed>>

\* loadImagesForFolder after its await: getImages rejected, the catch block.
LoadRejects ==
    \E folderPath \in Folders, theTracked \in BOOLEAN, isStale \in BOOLEAN :
       /\ CanSettle(folderPath, theTracked, isStale)
       /\ LET st == [Settling(CurrentSt, folderPath, theTracked, isStale) EXCEPT
                        !.imagesByFolder = StoreResult(@, folderPath, <<>>),
                        !.isAppBusy = FALSE]
          IN CommitSettled(Render(st, folderTree, FALSE, TRUE, FALSE))
       /\ failed' = IF "failed" \in history THEN failed \cup {folderPath} ELSE failed
       /\ UNCHANGED <<folderTree, loadingFolders>>

RemoveAt(s, i) == SubSeq(s, 1, i - 1) \o SubSeq(s, i + 1, Len(s))

\* fetchImage after `await api.getImageData`, resolved: a call whose effect
\* was cleaned up returns; else the URL is set and, with the details known,
\* the call ends in its finally block, or it goes on to probe them.
ImageDataArrives ==
    /\ \E i \in 1..Len(fetches) :
          /\ fetches[i].phase = "data"
          /\ IF ~fetches[i].active \/ DetailsAreKnown(fetches[i].image)
             THEN Commit([CurrentSt EXCEPT
                             !.fetches = RemoveAt(@, i),
                             !.isAppBusy = EndBusy(@, fetches[i]),
                             !.viewer = EndLoading(ShowImage(@, fetches[i]),
                                                   fetches[i])])
             ELSE Commit([CurrentSt EXCEPT
                             !.fetches[i].phase = "details",
                             !.viewer = ShowImage(@, fetches[i])])
    /\ UNCHANGED <<folderTree, loadingFolders, failed>>

\* fetchImage after `await api.getImageData`, rejected: catch and finally.
ImageDataFails ==
    /\ \E i \in 1..Len(fetches) :
          /\ fetches[i].phase = "data"
          /\ Commit([CurrentSt EXCEPT
                        !.fetches = RemoveAt(@, i),
                        !.isAppBusy = EndBusy(@, fetches[i]),
                        !.viewer = EndLoading(ShowError(@, fetches[i]),
                                              fetches[i])])
    /\ UNCHANGED <<folderTree, loadingFolders, failed>>

\* detailsToUpdate.exif = exifData ?? undefined; a RangeError of getExifData
\* is caught: detailsToUpdate.exif = undefined.
ExifOrUndefined(exifData) == IF exifData.kind = "tags" THEN exifData ELSE ExifUndefined

\* detailsToUpdate after Promise.all([imageLoadPromise, exifPromise])
DetailsToUpdate(image, blob, probe) ==
    LET size == IF SizeMissing(image) /\ probe.loaded
                THEN [width |-> probe.width, height |-> probe.height,
                      fileSize |-> Len(blob)]
                ELSE <<>>
        exif == IF IsJpeg(image) /\ "exif" \notin DOMAIN image
                THEN [exif |-> ExifOrUndefined(ExifDataOf(blob))]
                ELSE <<>>
    IN Spread(size, exif)

\* fetchImage after `await Promise.all(...)`: onUpdateImageDetails when there
\* is a detail to update, whether or not the effect is still active, then the
\* finally block.  The blob's bytes and the result of the <img> probe are
\* read only here.
DetailsProbed ==
    /\ \E i \in 1..Len(fetches) :
          /\ fetches[i].phase = "details"
          /\ \E blob \in ImageBlobs, probe \in ProbeResults :
             \E details \in {DetailsToUpdate(fetches[i].image, blob, probe)} :
                LET image == fetches[i].image
                    done == [CurrentSt EXCEPT
                                !.fetches = RemoveAt(@, i),
                                !.isAppBusy = EndBusy(@, fetches[i]),
                                !.viewer = EndLoading(@, fetches[i])]
                IN IF DOMAIN details = {}
                   THEN Commit(done)
                   ELSE Commit(Render(
                           [done EXCEPT
                               !.imagesByFolder =
                                   UpdateCachedDetails(@, image.id, details),
                               !.selectedItem =
                                   UpdateSelectedDetails(@, image.id, details)],
                           folderTree,
                           SelectionMatches(selectedItem, image.id),
                           HasEntry(imagesByFolder, FolderOf(image.id)),
                           FALSE))
    /\ UNCHANGED <<folderTree, loadingFolders, failed>>

Next ==
    \/ FolderTreeFetched
    \/ FolderTreeFailed
    \/ RefreshFolders
    \/ SelectNode
    \/ ToggleFolder
    \/ ToggleImageList
    \/ EnsureLoaded
    \/ SelectListImage
    \/ ThumbnailClick
    \/ NavigateImage
    \/ CloseImageView
    \/ LoadResolves
    \/ LoadRejects
    \/ ImageDataArrives
    \/ ImageDataFails
    \/ DetailsProbed

\* The application, with no history kept.
Init == InitApp({})

Spec == Init /\ [][Next]_vars

\* The application with the early returns of loadImagesForFolder recorded.
InitCalls == InitApp({"cacheHits"})

SpecCalls == InitCalls /\ [][Next]_vars

\* The application with the failed loads and the early returns recorded.
InitFailures == InitApp({"failed", "cacheHits"})

SpecFailures == InitFailures /\ [][Next]_vars

\* The application with the folders cached at a refresh recorded.
InitRefresh == InitApp({"refetchDue"})

SpecRefresh == InitRefresh /\ [][Next]_vars

\* The application with one in-flight getImages call recorded, and a
\* network that answers: the tracked call, which is any of
\* the calls, resolves or rejects in the end.
TrackedSettles ==
    /\ tracked # NoLoad
    /\ tracked' = NoLoad
    /\ (LoadResolves \/ LoadRejects)

InitFair == InitApp({"tracked"})

\* The application with the getImages calls issued before the last refresh
\* told from the later ones.
InitStale == InitApp({"stale"})

SpecStale == InitStale /\ [][Next]_vars

\* The application with the folders recorded whose loads were in flight
\* together.
InitOverlap == InitApp({"concurrent"})

SpecOverlap == InitOverlap /\ [][Next]_vars

SpecFair == InitFair /\ [][Next]_vars /\ WF_vars(TrackedSettles)

----------------------------------------------------------------------------
(* Claims about buildTree *)

Nodes(t) == DOMAIN t

NonRoot(t) == DOMAIN t \ {<<>>}

\* C1 (as claimed): in the tree built from P, a node is selectable if and only
\* if its path is a verbatim member of P, and every non-empty path of P is the
\* path of exactly one node.
C1_SelectableIffMember ==
    tree # NotBuilt =>
        /\ \A r \in NonRoot(tree) :
              tree[r].isSelectable <=> (tree[r].path \in Range(paths))
        /\ \A p \in Range(paths) :
              p # <<>> => Cardinality({r \in Nodes(tree) : tree[r].path = p}) = 1

\* C2: rebuilding from the same paths in another order, or with a path
\* repeated, yields the same tree: same nodes, same parent/child relation
\* (routes), same path and selectable flag per node.
C2_OrderInvariant ==
    [][(tree # NotBuilt /\ Range(paths') = Range(paths)) => tree' = tree]_vars

C2_Witness ==
    /\ treeOp = "reorder"
    /\ Len(paths) = 2
    /\ paths[1] = <<"/", "a">>
    /\ paths[2] = <<"a">>
    /\ tree[<<<<>>, <<"a">>>>].isSelectable

----------------------------------------------------------------------------
(* Claims about getExifData *)

StartsWithMarker(buf) == Len(buf) >= 2 /\ buf[1] = 255 /\ buf[2] = 216

\* C9 (as claimed): for every buffer that does not begin with 0xFF 0xD8, the
\* empty and the one-byte buffers included, getExifData returns null and
\* raises nothing.
C9_NoMarkerGivesNull ==
    (exifOut # NotCalled /\ ~StartsWithMarker(buffer)) => exifOut.kind = "null"

\* C10 (as claimed): for every buffer, however malformed or truncated,
\* getExifData returns null or a field map; no exception escapes it.
C10_NeverRaises ==
    exifOut # NotCalled => exifOut.kind \in {"null", "tags"}

\* Every buffer of the specification stays inside the modelled part of the
\* decoder.
ExifModelled == exifOut.kind # "unmodelled"

----------------------------------------------------------------------------
(* Claims about the folder cache *)

\* The step is handleRefreshFolders: nothing else raises loading.folders
\* after the mount.
RefreshStep == ~loadingFolders /\ loadingFolders'

\* The step starts a getImages call for the folder.
FetchIssued(f) == inFlight'[f] > inFlight[f]

\* The step settles a getImages call of the folder.
SettleStep(f) == inFlight'[f] < inFlight[f]

\* C3: a first loadImagesForFolder call for a folder without an entry starts
\* exactly one getImages call; once that call has settled the folder has an
\* entry, and a second call finds it and returns without fetching.
C3_SecondCallReturns ==
    /\ [](\A f \in Folders :
            ~HasEntry(imagesByFolder, f) =>
                loadImagesForFolder(CurrentSt, f).inFlight[f] = inFlight[f] + 1)
    /\ [][\A f \in Folders :
            /\ SettleStep(f) => HasEntry(imagesByFolder', f)
            /\ f \in cacheHits' => HasEntry(imagesByFolder, f) /\ ~FetchIssued(f)
            /\ (HasEntry(imagesByFolder, f) /\ ~RefreshStep) => ~FetchIssued(f)]_vars

\* The first call's fetch has settled, and a later call has just returned
\* early: no getImages call is in flight for the folder.
C3_Witness ==
    \E f \in Folders :
        /\ f \in cacheHits
        /\ HasEntry(imagesByFolder, f)
        /\ inFlight[f] = 0

\* C4: a load that fails leaves an entry holding the empty list, and from
\* then on, until handleRefreshFolders, no step starts a getImages call for
\* that folder.
C4_FailureIsCached ==
    [][\A f \in Folders :
          /\ (f \in failed' /\ f \notin failed) =>
                HasEntry(imagesByFolder', f) /\ imagesByFolder'[f] = <<>>
          /\ (f \in failed /\ ~RefreshStep) =>
                ~FetchIssued(f) /\ HasEntry(imagesByFolder', f)]_vars

\* A folder's load has failed, its entry is the empty list, and a later
\* loadImagesForFolder call for it has just returned early.
C4_Witness ==
    \E f \in failed :
        /\ f \in cacheHits
        /\ imagesByFolder[f] = <<>>
        /\ inFlight[f] = 0

\* C5 (as claimed): after handleRefreshFolders the cache has no entry, and a
\* folder that had an entry before the refresh has none until
\* loadImagesForFolder is next called for it, so that this call fetches it
\* anew.
C5_RefreshForcesRefetch ==
    \A f \in refetchDue : ~HasEntry(imagesByFolder, f)

\* C6 (as claimed): at most one getImages call per folder is in flight,
\* whichever of the App effect, the LeftPanel effect and the image list
\* toggle asks for the folder.
C6_OneFetchInFlight ==
    \A f \in Folders : inFlight[f] <= 1

\* What a settled getImages call can leave as the folder's entry: the records
\* of a returned list, or the empty list.
SettledEntries(f) ==
    {ImagesOfPaths(imagePaths) : imagePaths \in ImageListings(f)} \cup {<<>>}

\* C7: every getImages call that was started settles in the end; the step
\* that settles it leaves the folder an entry, holding the returned list or
\* the empty list; and a folder whose entry is the empty list, as a failure
\* leaves it, gets no further getImages call until handleRefreshFolders.
C7_LoadsSettle ==
    /\ (tracked # NoLoad) ~> (tracked = NoLoad)
    /\ [][\A f \in Folders :
            /\ (tracked = f /\ tracked' = NoLoad) =>
                  /\ HasEntry(imagesByFolder', f)
                  /\ imagesByFolder'[f] \in SettledEntries(f)
            /\ (HasEntry(imagesByFolder, f) /\ imagesByFolder[f] = <<>>
                  /\ ~RefreshStep) =>
                  ~FetchIssued(f) /\ HasEntry(imagesByFolder', f)]_vars

\* The load of the selected folder has settled with the empty list, and no
\* getImages call is in flight.
C7_Witness ==
    /\ "tracked" \in history
    /\ tracked = NoLoad
    /\ selectedItem.type = "folder"
    /\ HasEntry(imagesByFolder, selectedItem.path)
    /\ imagesByFolder[selectedItem.path] = <<>>
    /\ \A f \in Folders : inFlight[f] = 0

\* handleUpdateImageDetails at work on the cache: the keys and the images of
\* every entry stay, a record keeps its fields and may gain or change
\* details.
OnlyDetailsMerged(before, after) ==
    /\ DOMAIN after = DOMAIN before
    /\ \A f \in DOMAIN before :
          /\ Len(after[f]) = Len(before[f])
          /\ \A i \in 1..Len(before[f]) :
                /\ DOMAIN before[f][i] \subseteq DOMAIN after[f][i]
                /\ \A k \in {"id", "name", "fullPath", "format"} :
                      after[f][i][k] = before[f][i][k]

\* A fetchImage call is past its getImageData await: it can call
\* onUpdateImageDetails.
DetailsPending == \E i \in 1..Len(fetches) : fetches[i].phase = "details"

\* C8 (as claimed): the cache changes only in a step that settles a load of
\* loadImagesForFolder or in handleRefreshFolders; every other step,
\* handleUpdateImageDetails included, leaves it as it is.
C8_OnlyLoadAndRefreshWrite ==
    [][imagesByFolder' # imagesByFolder =>
          (\E f \in Folders : SettleStep(f)) \/ RefreshStep]_vars

\* C8 (amended): the cache changes only in a step that settles a load of
\* loadImagesForFolder, in handleRefreshFolders, or in
\* handleUpdateImageDetails, which merges the details into the records of an
\* entry that exists and adds or removes no key and no image.
C8_CacheWriters ==
    [][imagesByFolder' # imagesByFolder =>
          \/ \E f \in Folders : SettleStep(f)
          \/ RefreshStep
          \/ DetailsPending /\ OnlyDetailsMerged(imagesByFolder, imagesByFolder')]_vars

\* handleUpdateImageDetails has written the details of an image into the
\* cache, after the image view was closed.
C8_Witness ==
    /\ selectedItem.type = "folder"
    /\ HasEntry(imagesByFolder, selectedItem.path)
    /\ \E i \in 1..Len(imagesByFolder[selectedItem.path]) :
          "width" \in DOMAIN imagesByFolder[selectedItem.path][i]

----------------------------------------------------------------------------
(* More claims about buildTree *)

\* C15 (as claimed): the root node of the tree built from any list has the
\* empty name and the empty path and is not selectable, also when the empty
\* string is a member of the list.
C15_RootIsEmpty ==
    tree # NotBuilt =>
        /\ tree[<<>>].name = <<>>
        /\ tree[<<>>].path = <<>>
        /\ ~tree[<<>>].isSelectable

----------------------------------------------------------------------------
(* Claims about the location fields of getExifData *)

\* The case decodes to both magnitude triples and both reference strings.
Complete(c) ==
    /\ c.lat = "triple" /\ c.lon = "triple"
    /\ c.latRef \in {"N", "S"} /\ c.lonRef \in {"E", "W"}

\* The call of getExifData on the buffer of the input g has returned.
Returned(g) == g.buf = buffer /\ exifOut # NotCalled

\* C11 (as claimed): a returned field map holds GPSLatitude or GPSLongitude
\* only as numbers, and only if both triples and both references were
\* decoded; in every other case neither of the two is in the map.
C11_CoordinatesOnlyWhenComplete ==
    exifOut.kind = "tags" =>
        /\ \A k \in {"GPSLatitude", "GPSLongitude"} :
              k \in DOMAIN exifOut.tags => exifOut.tags[k].t = "num"
        /\ \A g \in GpsInputs :
              (Returned(g) /\ ~Complete(g.case)) =>
                  /\ "GPSLatitude" \notin DOMAIN exifOut.tags
                  /\ "GPSLongitude" \notin DOMAIN exifOut.tags

\* C12 (as claimed): no returned field map holds GPSLatitudeRef or
\* GPSLongitudeRef, whatever the location directory carried.
C12_NoReferenceFields ==
    exifOut.kind = "tags" =>
        /\ "GPSLatitudeRef" \notin DOMAIN exifOut.tags
        /\ "GPSLongitudeRef" \notin DOMAIN exifOut.tags

\* 3600 times the signed decimal degrees of a triple of whole numbers.
SignedSeconds(dms, positive) ==
    (IF positive THEN 1 ELSE -1) * (3600 * dms[1] + 60 * dms[2] + dms[3])

\* The number v is exactly seconds/3600 (both in lowest terms).
IsExactly(v, seconds) == v.t = "num" /\ v.q = Frac(seconds, 3600)

\* The number v is seconds/3600 rounded to 4 decimal places: a multiple of
\* 1/10000 no further than 1/20000 from it, that is, with n = 10000 v,
\* |3600 n - 10000 seconds| <= 1800.
IsRounded(v, seconds) ==
    /\ v.t = "num"
    /\ 10000 % v.q[2] = 0
    /\ Abs(18 * (v.q[1] * (10000 \div v.q[2])) - 50 * seconds) <= 9

\* C13 (as claimed): with both triples and both references decoded, the
\* output latitude is degrees + minutes/60 + seconds/3600, negated exactly
\* when the reference is not "N", and the longitude likewise with "E".
C13_ExactDegrees ==
    \A g \in GpsInputs :
        (Returned(g) /\ Complete(g.case)) =>
            /\ exifOut.kind = "tags"
            /\ {"GPSLatitude", "GPSLongitude"} \subseteq DOMAIN exifOut.tags
            /\ IsExactly(exifOut.tags["GPSLatitude"],
                         SignedSeconds(g.case.latDms, g.case.latRef = "N"))
            /\ IsExactly(exifOut.tags["GPSLongitude"],
                         SignedSeconds(g.case.lonDms, g.case.lonRef = "E"))

\* C13 (amended): with both triples and both references decoded, the output
\* latitude is degrees + minutes/60 + seconds/3600, negated exactly when the
\* reference is not "N", then rounded to 4 decimal places, and the longitude
\* likewise with "E".
C13_RoundedDegrees ==
    \A g \in GpsInputs :
        (Returned(g) /\ Complete(g.case)) =>
            /\ exifOut.kind = "tags"
            /\ {"GPSLatitude", "GPSLongitude"} \subseteq DOMAIN exifOut.tags
            /\ IsRounded(exifOut.tags["GPSLatitude"],
                         SignedSeconds(g.case.latDms, g.case.latRef = "N"))
            /\ IsRounded(exifOut.tags["GPSLongitude"],
                         SignedSeconds(g.case.lonDms, g.case.lonRef = "E"))

\* [40, 30, 30] "S" and [74, 15, 50] "W" have come out as -40.5083 and
\* -74.2639.
C13_Witness ==
    /\ exifOut.kind = "tags"
    /\ {"GPSLatitude", "GPSLongitude"} \subseteq DOMAIN exifOut.tags
    /\ exifOut.tags["GPSLatitude"] = NumVal(<<-405083, 10000>>)
    /\ exifOut.tags["GPSLongitude"] = NumVal(<<-742639, 10000>>)

\* C14: no returned field map holds ExifIFDPointer or GPSInfoIFDPointer,
\* whichever directories carried them.
C14_NoPointerFields ==
    exifOut.kind = "tags" =>
        /\ "ExifIFDPointer" \notin DOMAIN exifOut.tags
        /\ "GPSInfoIFDPointer" \notin DOMAIN exifOut.tags

\* A field map has been returned for a buffer whose primary directory carried
\* an ExifIFDPointer and whose extended directory carried the
\* GPSInfoIFDPointer: both were followed.
C14_Witness ==
    /\ exifOut.kind = "tags"
    /\ \E g \in GpsInputs : Returned(g) /\ g.case.carrier = "extended"
    /\ "PixelXDimension" \in DOMAIN exifOut.tags
    /\ "GPSLatitude" \in DOMAIN exifOut.tags

----------------------------------------------------------------------------
(* Claims about the segment scan of getExifData *)

\* The big-endian length of the segment at offset o of the buffer.
SegmentLength(o) == 256 * buffer[o + 3] + buffer[o + 4]

\* The bytes of the buffer are used up at offset o: fewer than 4 are left.
Exhausted(o) == o + 4 > Len(buffer)

\* C19: on a buffer that begins with the format marker the scan ends, with
\* a return or at a 0xE1 segment; a pass that does not end it moves the
\* offset on by 2 plus the big-endian length of the segment, so by 2 at
\* least; the scan returns null when the segment start is not 0xFF and when
\* the buffer is used up; and the call ends at the first 0xE1 segment, with
\* what the decoding of that segment gives.
C19_ScanTerminates ==
    /\ <>(exifOut # NotCalled \/ AtApp1)
    /\ [][scanOffset' # scanOffset =>
             /\ ~Exhausted(scanOffset)
             /\ buffer[scanOffset + 1] = 255 /\ buffer[scanOffset + 2] # 225
             /\ scanOffset' = scanOffset + 2 + SegmentLength(scanOffset)
             /\ scanOffset' >= scanOffset + 2
             /\ exifOut' = NotCalled]_vars
    /\ [][exifOut' # exifOut =>
             IF Exhausted(scanOffset) \/ buffer[scanOffset + 1] # 255
             THEN exifOut' = ExifNull
             ELSE /\ buffer[scanOffset + 2] = 225
                  /\ exifOut' = DecodeApp1(buffer, scanOffset)
                  /\ exifOut' = getExifData(buffer)]_vars
    /\ [][exifOut # NotCalled => UNCHANGED <<scanOffset, exifOut>>]_vars

\* The scan has passed two segments and has ended at an APP1 segment with
\* a field map.
C19_Witness ==
    /\ scanOffset >= 10
    /\ exifOut.kind = "tags"

----------------------------------------------------------------------------
(* Claims about readTags *)

\* The entries of the directory handed to readTags, and the parts of entry i
\* as they are in the buffer.
EntryCount == getUint16(buffer, readArgs.dirStart, ~readArgs.bigEnd)

EntryAt(i) == readArgs.dirStart + 2 + 12 * i

TagOf(i) == getUint16(buffer, EntryAt(i), ~readArgs.bigEnd)

FormatOf(i) == getUint16(buffer, EntryAt(i) + 2, ~readArgs.bigEnd)

ComponentsOf(i) == getUint32(buffer, EntryAt(i) + 4, ~readArgs.bigEnd)

RawValueOf(i) == getUint32(buffer, EntryAt(i) + 8, ~readArgs.bigEnd)

\* Entry i has a tag of the table and a format code of 1 to 12.
Known(i) ==
    /\ TagOf(i) \in DOMAIN TagTable(readArgs.table)
    /\ FormatOf(i) \in 1..12

\* No later entry of the directory has the tag of entry i.
LastOfItsTag(i) == \A j \in (i + 1)..(EntryCount - 1) : TagOf(j) # TagOf(i)

\* The call has returned a field map that holds v under the name of the tag
\* of entry i.
Stored(i, v) ==
    /\ ~readOut.thrown
    /\ TagTable(readArgs.table)[TagOf(i)] \in DOMAIN readOut.tags
    /\ readOut.tags[TagTable(readArgs.table)[TagOf(i)]] = v

\* C17 (as claimed): a known entry that is not ASCII, not rational and not a
\* single short or long has its raw 4-byte value field stored under the
\* name of its tag, single components of the other formats included.
C17_RawValueStored ==
    (readOut.called /\ ~readOut.thrown) =>
        \A i \in 0..(EntryCount - 1) :
            (/\ Known(i)
             /\ FormatOf(i) \notin {2, 5}
             /\ ~(FormatOf(i) \in {3, 4} /\ ComponentsOf(i) = 1)
             /\ LastOfItsTag(i)) =>
                Stored(i, NumVal(<<RawValueOf(i), 1>>))

\* Entry i is malformed: its tag is in no table, its format code is 0 or
\* above 12, or its value is at an offset outside the buffer.
Malformed(i) ==
    \/ ~Known(i)
    \/ /\ ComponentsOf(i) * TypeSize(FormatOf(i)) > 4
       /\ readArgs.tiffStart + RawValueOf(i) >= Len(buffer)

\* C18 (as claimed): a malformed entry makes readTags skip that field only:
\* the call returns, and the single shorts and longs among the other entries
\* of the directory are in the field map it returns.
C18_OnlyThatFieldSkipped ==
    (readOut.called /\ \E i \in 0..(EntryCount - 1) : Malformed(i)) =>
        /\ ~readOut.thrown
        /\ \A j \in 0..(EntryCount - 1) :
              (Known(j) /\ FormatOf(j) = 3 /\ ComponentsOf(j) = 1) =>
                  Stored(j, NumVal(<<getUint16(buffer, EntryAt(j) + 8,
                                               ~readArgs.bigEnd), 1>>))

----------------------------------------------------------------------------
(* Claims about loads that overlap a refresh or each other *)

\* C16 (as claimed): after handleRefreshFolders every entry of the cache was
\* written by a getImages call issued after that refresh; a call in flight
\* at the refresh writes nothing into the cleared cache.
C16_NoStaleEntries ==
    \A f \in DOMAIN imagesByFolder : f \notin stale.wrote

\* C20: the loads of two folders that were in flight together since the last
\* refresh both leave their entry: once no getImages call is in flight for
\* such a folder the cache has its entry, in whichever order the calls
\* settled; and no step but handleRefreshFolders takes an entry away.
C20_BothResultsKept ==
    /\ [](\A f \in concurrent : inFlight[f] = 0 => HasEntry(imagesByFolder, f))
    /\ [][~RefreshStep => DOMAIN imagesByFolder \subseteq DOMAIN imagesByFolder']_vars

\* The loads of both folders were in flight together, both have settled, and
\* the cache has both entries.
C20_Witness ==
    /\ concurrent = {FolderA, FolderAB}
    /\ \A f \in concurrent : inFlight[f] = 0 /\ HasEntry(imagesByFolder, f)

----------------------------------------------------------------------------
(* Claims about the busy flag *)

\* A getImages call or a fetchImage call has not ended yet.
SomethingInFlight ==
    \/ \E f \in Folders : inFlight[f] > 0
    \/ fetches # <<>>

\* C22 (as claimed): isAppBusy is true exactly when a folder load
\* (loadImagesForFolder) or an image fetch (fetchImage of MainPanel) is in
\* flight: false whenever none is, true while any still runs.
C22_BusyIffInFlight == isAppBusy <=> SomethingInFlight

----------------------------------------------------------------------------
(* Claims about the shape of the tree *)

\* parts.join('/')
RECURSIVE SlashJoin(_)
SlashJoin(parts) ==
    IF parts = <<>> THEN <<>>
    ELSE IF Len(parts) = 1 THEN parts[1]
    ELSE parts[1] \o <<"/">> \o SlashJoin(Tail(parts))

\* The names of the nodes on the way from the root to the node at route r.
NamesOnRoute(t, r) == [k \in 1..Len(r) |-> t[SubSeq(r, 1, k)].name]

\* The segment count of the longest input path (0 for no path).
RECURSIVE LongestSegmentCount(_)
LongestSegmentCount(ps) ==
    IF ps = <<>> THEN 0
    ELSE LET rest == LongestSegmentCount(Tail(ps))
             mine == Len(Split(Head(ps)))
         IN IF mine > rest THEN mine ELSE rest

\* C26 (as claimed): in the tree built from any list, the name of every
\* non-root node is the final segment of its path, its path is the
\* slash-join of the names on the route from the root to it, every node but
\* the root has its parent in the tree (one route per node, so no cycle), and
\* no node lies deeper than the segment count of the longest input path.
C26_PathIsJoinOfRoute ==
    tree # NotBuilt =>
        \A r \in NonRoot(tree) :
           /\ tree[r].name = Pop(Split(tree[r].path))
           /\ tree[r].path = SlashJoin(NamesOnRoute(tree, r))
           /\ SubSeq(r, 1, Len(r) - 1) \in Nodes(tree)
           /\ Len(r) <= LongestSegmentCount(paths)

----------------------------------------------------------------------------
(* SpecRecords: the map of loadImagesForFolder from the paths getImages     *)
(* returned to image records, applied to every bounded list of paths of one *)
(* folder: file names with and without a '.', in a folder with and without  *)
(* one.                                                                     *)

\* Bounds of the records specification.
MaxNameLen == 2
MaxListed == 2

NameChars == {"y", ".", "J"}

\* The file names: the non-empty strings without a slash.
FileNames == StringsUpTo(NameChars, MaxNameLen) \ {<<>>}

FolderADotB == <<"a", ".", "b">>

ListedFolders == {FolderA, FolderADotB}

\* What getImages can answer for a folder: lists of paths below it.
ReturnedLists(folderPath) ==
    UNION {[1..k -> {folderPath \o <<"/">> \o n : n \in FileNames}] :
              k \in 0..MaxListed}

InitRecords ==
    /\ \E folderPath \in ListedFolders : paths \in ReturnedLists(folderPath)
    /\ tree = NotBuilt
    /\ treeOp = "init"
    /\ buffer = <<>>
    /\ ExifNotCalled
    /\ AppNotMounted

\* loadImagesForFolder after its await, getImages resolved with `paths`:
\* imagePaths.map(...) and setImagesByFolder.
MapImagePaths ==
    /\ imagesByFolder = EmptyCache
    /\ \E folderPath \in ListedFolders :
          /\ \A i \in 1..Len(paths) : FolderOf(paths[i]) = folderPath
          /\ imagesByFolder' = StoreResult(imagesByFolder, folderPath, ImagesOfPaths(paths))
    /\ UNCHANGED <<paths, tree, treeOp, folderTree, loadingFolders, selectedItem,
                   saved, isAppBusy, expandedFolders, expandedImageLists,
                   inFlight, tracked, fetches, failed, refetchDue, cacheHits,
                   stale, concurrent, viewer, history, gallery, exifVars>>

NextRecords == MapImagePaths

SpecRecords == InitRecords /\ [][NextRecords]_vars

----------------------------------------------------------------------------
(* Claims about the image records *)

\* The part of a file name after its last '.', empty when it has none.
ExtensionOf(name) ==
    LET pieces == SplitOn(name, ".")
    IN IF Len(pieces) = 1 THEN <<>> ELSE Pop(pieces)

Unknown == <<"u", "n", "k", "n", "o", "w", "n">>

\* C25 (as claimed): a successful load stores one record per returned path,
\* in the returned order, with id and fullPath the path, name the final
\* '/'-separated segment of the path, and format the lower-cased extension of
\* that final segment ('unknown' or empty standing for no extension), also
\* when the file name has no '.' and when a folder name has one.
C25_RecordPerPath ==
    \A f \in DOMAIN imagesByFolder :
       /\ Len(imagesByFolder[f]) = Len(paths)
       /\ \A i \in 1..Len(paths) :
             LET image == imagesByFolder[f][i]
                 segment == Pop(Split(paths[i]))
                 extension == ToLowerCase(ExtensionOf(segment))
             IN /\ image.id = paths[i]
                /\ image.fullPath = paths[i]
                /\ image.name = segment
                /\ IF extension = <<>>
                   THEN image.format \in {<<>>, Unknown}
                   ELSE image.format = extension

----------------------------------------------------------------------------
(* Claims about the layout getExifData reads *)

\* The buffer's first segment is an APP1 segment with its 4-byte signature.
App1First ==
    /\ ByteLength(buffer) >= 6
    /\ getUint8(buffer, 0) = 255 /\ getUint8(buffer, 1) = 216
    /\ getUint8(buffer, ScanStart) = 255 /\ getUint8(buffer, ScanStart + 1) = 225
    /\ getUint32(buffer, ScanStart + 4, FALSE) = 1165519206

\* The decoding of the segment at `offset` with the byte-order marker read
\* at markerAt, the directory offset read 4 bytes on, and the directory
\* offset and the value pointers counted from base.
DecodedFrom(buf, markerAt, base) ==
    LET order == getUint16(buf, markerAt, FALSE)
    IN IF order = OutOfRange THEN ExifRangeError
       ELSE ReadPrimaryTags(buf, base, order = 19789,
                            getUint32(buf, markerAt + 4, ~(order = 19789)))

\* C24 (as claimed): getExifData reads the byte-order marker immediately
\* after the 4-byte signature, and counts the directory offset and every
\* value pointer from the position immediately after the 2-byte marker.
C24_BaseAfterMarker ==
    (exifOut # NotCalled /\ App1First) =>
        exifOut = DecodedFrom(buffer, ScanStart + 8, ScanStart + 8 + 2)

----------------------------------------------------------------------------
(* SpecBranches: the application in a gallery whose folders lie on two     *)
(* branches of the tree.                                                   *)

BranchingGallery == [DefaultGallery EXCEPT !.listings = {<<FolderAB, FolderCB>>}]

InitBranches == InitIn({}, BranchingGallery)

SpecBranches == InitBranches /\ [][Next]_vars

\* The slash-joined prefixes of a path: of 'a/b' they are 'a' and 'a/b'.
PrefixesOf(path) ==
    {SlashJoin(SubSeq(Split(path), 1, k)) : k \in 1..Len(Split(path))}

----------------------------------------------------------------------------
(* Claims about the default selection after a refresh *)

\* The step ends a getFolders call.
TreeFetchEnds == loadingFolders /\ ~loadingFolders'

\* The path is that of a selectable node of the tree.
SelectableIn(t, path) ==
    \E r \in DOMAIN t : t[r].isSelectable /\ t[r].path = path

\* C27 (as claimed): handleRefreshFolders leaves nothing selected, no folder
\* being selected by default before the tree of the new getFolders call is
\* installed; and the folder selected by default when that call ends is a
\* selectable node of the tree it installed.
C27_DefaultFromNewTree ==
    [][/\ RefreshStep => selectedItem' = NoSelection
       /\ (TreeFetchEnds /\ selectedItem = NoSelection /\ selectedItem' # NoSelection) =>
             /\ selectedItem'.type = "folder"
             /\ SelectableIn(folderTree', selectedItem'.path)]_vars

----------------------------------------------------------------------------
(* SpecAlbum: the application in a gallery whose folders have up to         *)
(* MaxAlbumImages images, mounted with nothing saved or with a saved image *)
(* selection: an image of the folder, or one the folder no longer has.     *)

MaxAlbumImages == 3

FirstImage == FolderAB \o <<"/">> \o ImageNames[1]

GoneImage == FolderAB \o <<"/", "w">>

AlbumGallery ==
    [DefaultGallery EXCEPT
        !.listings = {<<FolderAB>>},
        !.images = MaxAlbumImages,
        !.saved = {NoSelection, ImageSelection(RestoredImage(FirstImage)),
                   ImageSelection(RestoredImage(GoneImage))}]

InitAlbum == InitIn({}, AlbumGallery)

SpecAlbum == InitAlbum /\ [][Next]_vars

----------------------------------------------------------------------------
(* Claims about the navigation between images *)

\* In a list of n images, next goes one on and from the last to the first,
\* prev one back and from the first to the last, and prev undoes next.
NavigationWraps(n) ==
    \A i \in 1..n :
       /\ NewIndex(i, n, "next") = (IF i = n THEN 1 ELSE i + 1)
       /\ NewIndex(i, n, "prev") = (IF i = 1 THEN n ELSE i - 1)
       /\ NewIndex(NewIndex(i, n, "next"), n, "prev") = i
       /\ NewIndex(NewIndex(i, n, "prev"), n, "next") = i

\* C30: navigation is cyclic within the cached list of the selected image's
\* folder: next selects the image after the selected one and the first
\* after the last, prev the one before and the last before the first, so
\* prev undoes next; the image selected by a navigation is a member of the
\* list; and navigateImage selects nothing when the folder has no entry or
\* the selected image is not in its list.
C30_NavigationIsCyclic ==
    /\ [](\A f \in DOMAIN imagesByFolder : NavigationWraps(Len(imagesByFolder[f])))
    /\ [][NavigateImage =>
            /\ HasEntry(imagesByFolder, FolderOf(selectedItem.data.fullPath))
            /\ LET list == imagesByFolder[FolderOf(selectedItem.data.fullPath)]
                   i == CurrentIndex(list, selectedItem)
               IN /\ i # 0
                  /\ selectedItem'.type = "image"
                  /\ selectedItem'.data \in
                        {list[IF i = Len(list) THEN 1 ELSE i + 1],
                         list[IF i = 1 THEN Len(list) ELSE i - 1]}
                  /\ \E j \in 1..Len(list) : list[j] = selectedItem'.data]_vars

\* The folder has three images, the first is selected, and the details of
\* the first and of the last are recorded but not those of the second: the
\* last was shown and left without a visit to the second.
C30_Witness ==
    /\ selectedItem.type = "image"
    /\ HasEntry(imagesByFolder, FolderAB)
    /\ LET list == imagesByFolder[FolderAB]
       IN /\ Len(list) = 3
          /\ selectedItem.data = list[1]
          /\ "width" \in DOMAIN list[1]
          /\ "width" \in DOMAIN list[3]
          /\ "width" \notin DOMAIN list[2]

----------------------------------------------------------------------------
(* Claims about handleUpdateImageDetails *)

DetailKeys == {"width", "height", "fileSize", "exif"}

\* The record `after` is the record `before` with details merged into it.
MergedInto(before, after) ==
    /\ DOMAIN before \subseteq DOMAIN after
    /\ DOMAIN after \subseteq DOMAIN before \cup DetailKeys
    /\ \A k \in DOMAIN before \ DetailKeys : after[k] = before[k]

\* The cache `after` is the cache `before` but for the records of the image
\* in the list of the image's folder.
OnlyImageTouched(before, after, imageId) ==
    /\ DOMAIN after = DOMAIN before
    /\ FolderOf(imageId) \notin DOMAIN before => after = before
    /\ \A f \in DOMAIN before :
          /\ Len(after[f]) = Len(before[f])
          /\ \A i \in 1..Len(before[f]) :
                /\ after[f][i].id = before[f][i].id
                /\ after[f][i] # before[f][i] =>
                      /\ f = FolderOf(imageId)
                      /\ before[f][i].id = imageId
                      /\ MergedInto(before[f][i], after[f][i])

\* C28: a step in which fetchImage has probed the details of an image, the
\* one step that calls handleUpdateImageDetails, adds and removes no folder
\* key of the cache and changes no list's length, order or ids: it merges
\* details into the record whose id is the image's, in the list of the
\* image's folder, and leaves the cache as it is when that folder has no
\* entry.
C28_OnlyTheImageRecord ==
    [][DetailsProbed =>
          \E i \in 1..Len(fetches) :
             /\ fetches[i].phase = "details"
             /\ OnlyImageTouched(imagesByFolder, imagesByFolder',
                                 fetches[i].image.id)]_vars

\* The folder has three images, and the details of the second are recorded
\* while the first and the third have none.
C28_Witness ==
    /\ HasEntry(imagesByFolder, FolderAB)
    /\ LET list == imagesByFolder[FolderAB]
       IN /\ Len(list) = 3
          /\ "width" \in DOMAIN list[2]
          /\ "width" \notin DOMAIN list[1]
          /\ "width" \notin DOMAIN list[3]

----------------------------------------------------------------------------
(* SpecViewer: the application in the gallery of SpecAlbum, with the state  *)
(* of the image viewer kept and the superseded getImageData calls followed  *)
(* until they settle.                                                       *)

InitViewer == InitIn({"viewer"}, AlbumGallery)

SpecViewer == InitViewer /\ [][Next]_vars

\* The step ends a fetchImage call that was waiting for getImageData when
\* the selection changed: its response or its failure is handled.
SupersededEnds ==
    \E i \in Superseded(fetches) : fetches' = RemoveAt(fetches, i)

\* A fetchImage call of the effect run for the current selection.
ActiveFetch(i) == fetches[i].active /\ SelectionMatches(selectedItem, fetches[i].image.id)

\* C21: the response or failure of a getImageData call that the selection
\* left behind changes neither the displayed image URL nor the error nor the
\* loading flag; a URL on display is that of the selected image; and the
\* viewer is loading exactly while a call made for the current selection
\* runs, every running call whose effect is still active being such a call.
C21_SupersededFetchIsIgnored ==
    /\ [][SupersededEnds => viewer' = viewer]_vars
    /\ [](viewer.imageUrl # NoUrl => SelectionMatches(selectedItem, viewer.imageUrl))
    /\ [](viewer.error => selectedItem.type = "image")
    /\ [](\A i \in 1..Len(fetches) : fetches[i].active => ActiveFetch(i))
    /\ [](viewer.loading <=> \E i \in 1..Len(fetches) : ActiveFetch(i))

\* The third image is selected, its bytes have arrived and its URL is on
\* display, while the call made for the first image, selected before, has
\* not settled yet.
C21_Witness ==
    /\ Len(fetches) = 2
    /\ ~fetches[1].active /\ fetches[1].phase = "data"
    /\ fetches[1].image.id = FirstImage
    /\ fetches[2].active /\ fetches[2].phase = "details"
    /\ selectedItem.type = "image"
    /\ selectedItem.data.id = FolderAB \o <<"/">> \o ImageNames[3]
    /\ viewer.imageUrl = selectedItem.data.id
    /\ viewer.loading

----------------------------------------------------------------------------
(* SpecQuiet: the application with a user who does nothing more once an    *)
(* image is selected, a network that answers and a probe that ends.  The   *)
(* bytes of the images and what the probe finds are the same all through a *)
(* run: bytes with or without metadata; a probe that loads the image, that *)
(* reports it 0 wide or 0 high, or that fails.                             *)

QuietProbes == {LoadedProbe(4, 3), LoadedProbe(0, 3), LoadedProbe(4, 0), FailedProbe}

QuietGalleries ==
    {[AlbumGallery EXCEPT !.blobs = {kind}, !.probes = {probe}] :
        kind \in {"exif", "plain"}, probe \in QuietProbes}

InitQuiet == \E served \in QuietGalleries : InitIn({}, served)

\* The user has not selected an image yet.
NoImageYet == selectedItem.type # "image"

\* The getImageData call of a fetchImage call settles.
ImageDataSettles == ImageDataArrives \/ ImageDataFails

\* The steps of the user while no image is selected, and the steps of the
\* network and of the probe.
NextQuiet ==
    \/ NoImageYet /\ RefreshFolders
    \/ NoImageYet /\ SelectNode
    \/ NoImageYet /\ ToggleFolder
    \/ NoImageYet /\ ToggleImageList
    \/ NoImageYet /\ EnsureLoaded
    \/ NoImageYet /\ SelectListImage
    \/ NoImageYet /\ ThumbnailClick
    \/ FolderTreeFetched
    \/ FolderTreeFailed
    \/ LoadResolves
    \/ LoadRejects
    \/ ImageDataSettles
    \/ DetailsProbed

SpecQuiet ==
    InitQuiet /\ [][NextQuiet]_vars
        /\ WF_vars(ImageDataSettles) /\ WF_vars(DetailsProbed)

----------------------------------------------------------------------------
(* Claims about the fetch effect of MainPanel *)

\* C23 (as claimed): once an image is selected and the user does nothing
\* more, the fetch effect comes to rest: from some point on no fetchImage
\* call is running, whatever the probe finds and whether or not the bytes
\* carry metadata.
C23_FetchEffectQuiesces ==
    <>[](selectedItem.type = "image" => fetches = <<>>)

====
